---- MODULE Spec2Model ----
(***************************************************************************)
(* entityorm: the queryable builder (DbSet), the expression translator     *)
(* (exprToString), the query composer (PostgresQueryCompiler) and the      *)
(* engine (PostgresEngine), as a state machine.                            *)
(*                                                                         *)
(* SQL text is modelled as TLA+ strings built exactly as the template      *)
(* strings of the source build them.  A callback (filter / map / order     *)
(* function) is modelled by its source text, which is what the composer    *)
(* obtains with Function.prototype.toString(); acorn.parse is the table    *)
(* Parse from those texts to ESTree nodes.                                 *)
(***************************************************************************)
EXTENDS Integers, Sequences, FiniteSets, TLC

VARIABLES
  builders,   \* the DbSet objects created so far; builders[1] is the fresh DbSet
  q,          \* an IQueryableState a caller hands to the engine directly
  last,       \* the last terminal call: what the engine received and produced
  calls,      \* the toArray calls in flight on one engine, each with its position
  pool,       \* the calls that hold a connection of the data source's pool
  schema      \* the metadata the decorators have stored on the entity constructors

vars == <<builders, q, last, calls, pool, schema>>

(***************************************************************************)
(* Bounds of the model.                                                    *)
(***************************************************************************)
MaxBuilders == 3   \* DbSet objects alive in one run of Spec
MaxOps == 3        \* length of the operation lists handed to the engine in SpecEngine
MaxN == 2          \* largest argument of skip / take
NRows == 3         \* rows of the "users" table
MaxCalls == 3      \* concurrent toArray calls on one engine in SpecPool
PoolSize == 1      \* connections of the pool in SpecPool

(***************************************************************************)
(* JavaScript values that can sit in a scope bag.                          *)
(*   t : typeof-like tag, n : the number (or 1/0 for a boolean),           *)
(*   s : the characters of a string, o : the own properties of an object   *)
(*       as a set of <<key, value>> pairs.                                 *)
(***************************************************************************)
Num(n) == [t |-> "number", n |-> n, s |-> <<>>, o |-> {}]
Str(chars) == [t |-> "string", n |-> 0, s |-> chars, o |-> {}]
Bool(b) == [t |-> "boolean", n |-> IF b THEN 1 ELSE 0, s |-> <<>>, o |-> {}]
Null == [t |-> "null", n |-> 0, s |-> <<>>, o |-> {}]
Undefined == [t |-> "undefined", n |-> 0, s |-> <<>>, o |-> {}]
Obj(pairs) == [t |-> "object", n |-> 0, s |-> <<>>, o |-> pairs]

RECURSIVE JoinStr(_, _)
\* Array.prototype.join(sep) on an array of strings
JoinStr(seq, sep) ==
  IF seq = <<>> THEN ""
  ELSE IF Len(seq) = 1 THEN seq[1]
  ELSE seq[1] \o sep \o JoinStr(Tail(seq), sep)

\* `${v}` : the string a template literal interpolates for a JavaScript value
TemplateString(v) ==
  CASE v.t = "number" -> ToString(v.n)
    [] v.t = "string" -> JoinStr(v.s, "")
    [] v.t = "boolean" -> IF v.n = 1 THEN "true" ELSE "false"
    [] v.t = "null" -> "null"
    [] v.t = "undefined" -> "undefined"
    [] OTHER -> "[object Object]"

\* the empty scope bag {}
EmptyScope == [k \in {} |-> Undefined]

\* the dot-paths lodash can reach in a bag: own keys and keys of nested objects
ScopePaths(scope) ==
  DOMAIN scope \cup
  UNION {{k \o "." \o p[1] : p \in scope[k].o} : k \in DOMAIN scope}

\* _.get(scope, path): undefined when the path leads nowhere
LodashGet(scope, path) ==
  IF path \in DOMAIN scope THEN scope[path]
  ELSE IF \E k \in DOMAIN scope : \E p \in scope[k].o : path = k \o "." \o p[1]
    THEN LET k == CHOOSE kk \in DOMAIN scope :
                    \E p \in scope[kk].o : path = kk \o "." \o p[1]
             p == CHOOSE pp \in scope[k].o : path = k \o "." \o pp[1]
         IN p[2]
    ELSE Undefined

(***************************************************************************)
(* ESTree nodes, as acorn builds them.                                     *)
(***************************************************************************)
Identifier(name) == [type |-> "Identifier", name |-> name]
\* a literal: its source text and its value
Literal(raw, value) ==
  [type |-> "Literal", raw |-> raw, valueType |-> value.t, value |-> value]
\* obj.prop and obj[prop]: acorn gives both a property Identifier, whose name is read
Member(object, prop) ==
  [type |-> "MemberExpression", object |-> object, property |-> [name |-> prop]]
Binary(op, left, right) ==
  [type |-> "BinaryExpression", operator |-> op, left |-> left, right |-> right]
Logical(op, left, right) ==
  [type |-> "LogicalExpression", operator |-> op, left |-> left, right |-> right]
Call(object, method, args) ==
  [type |-> "CallExpression", callee |-> Member(object, method), arguments |-> args]
\* fn(args): a call whose callee is a plain identifier
CallFn(name, args) ==
  [type |-> "CallExpression", callee |-> Identifier(name), arguments |-> args]
Unary(op, argument) ==
  [type |-> "UnaryExpression", operator |-> op, argument |-> argument]
Conditional(test, consequent, alternate) ==
  [type |-> "ConditionalExpression", test |-> test, consequent |-> consequent,
   alternate |-> alternate]
ArrayExpression(elements) == [type |-> "ArrayExpression", elements |-> elements]
ObjectExpression(props) == [type |-> "ObjectExpression", properties |-> props]
Prop(key, value) == [key |-> key, value |-> value]
Arrow(param, body) ==
  [type |-> "ArrowFunctionExpression", params |-> <<param>>, body |-> body]

(***************************************************************************)
(* The callbacks of the model, by source text, and acorn.parse on them.    *)
(***************************************************************************)
FnIdGt1 == "u => u.id > 1"
FnIdLt3 == "u => u.id < 3"
FnIdGtFoo == "u => u.id > foo"
FnNameEq == "u => u.username == name"
FnFlagEq == "u => u.role == flag"
FnNothingEq == "u => u.role == nothing"
FnIdGtBarNum == "u => u.id > bar.num"
FnNoSuch == "u => u.nosuch > 1"
FnMapId == "u => ({ id: u.id })"
FnMapIdx == "u => ({ id: u.id, idx: u.id * 8 })"
FnMapNoSuch == "u => ({ id: u.id, z: u.id * missing })"
\* calls of recognized methods
FnLowerEq == "u => u.username.toLowerCase() == 'bob'"
FnStartsWith == "u => u.username.startsWith('a')"
FnIncludesStr == "u => u.username.includes('a')"
FnSubstring == "u => u.username.substring(1, 2) == 'o'"
FnMapFixed == "u => ({ id: u.id, r: u.id.toFixed(2) })"
\* calls of methods the translator has no entry for, and of a plain function
FnCharAt == "u => u.username.charAt(0) == 'a'"
FnBareCall == "u => isAdmin(u.role)"
FnMapPad == "u => ({ id: u.id, p: u.username.padStart(5) })"
FnSelCharAt == "x => x.username.charAt(0)"
\* node kinds the translator has no case for
FnNot == "u => !u.role"
FnInArray == "u => [1, 2]"
FnMapCond == "u => ({ id: u.id, r: u.id > 1 ? 1 : 0 })"
FnSelNeg == "x => -x.id"
\* comparisons with null, and the strict operators next to the loose ones
FnRoleEqNull == "u => u.role == null"
FnRoleNeNull == "u => u.role != null"
FnIdEq == "u => u.id == 1"
FnIdNe == "u => u.id != 1"
FnIdStrictEq == "u => u.id === 1"
FnIdStrictNe == "u => u.id !== 1"
\* projections with a nested object literal and with a nested map call
FnMapNested == "u => ({ a: { b: u.id } })"
FnMapCourses == "u => ({ id: u.id, c: u.courses.map(c => ({ cid: c.id, uid: u.fullName })) })"
FnMapId8 == "u => ({ id: u.id * 8 })"
\* callbacks over the aliases an earlier map produced
FnMapPick == "u => ({ n: u.idx, f: u.fullName })"
FnIdxGt1 == "u => u.idx > 1"
FnSelIdx == "x => x.idx"
\* x => x.<field>, the selector that reads one field
FieldSelector(field) == "x => x." \o field
FnSelId == FieldSelector("id")
FnSelCoursesId == "x => x.courses.id"
FnSelNoSuch == "x => x.nosuch"
\* the selector DbSet.orderBy builds around a field-name string
FnSelWrapped == "(x) => x[selector]"

FilterFns == {FnIdGt1, FnIdLt3, FnIdGtFoo, FnNameEq, FnFlagEq, FnNothingEq,
              FnIdGtBarNum, FnNoSuch, FnLowerEq, FnStartsWith, FnIncludesStr,
              FnSubstring, FnCharAt, FnBareCall, FnNot, FnInArray, FnRoleEqNull,
              FnRoleNeNull, FnIdEq, FnIdNe, FnIdStrictEq, FnIdStrictNe, FnIdxGt1}
MapFns == {FnMapId, FnMapIdx, FnMapNoSuch, FnMapFixed, FnMapPad, FnMapCond,
           FnMapNested, FnMapCourses, FnMapId8, FnMapPick}
OrderFns == {FnSelId, FnSelCoursesId, FnSelNoSuch, FnSelWrapped, FnSelCharAt, FnSelNeg,
             FnSelIdx}

FieldNames == {"id", "username", "fullName", "role"}

\* acorn.parse(source).body[0].expression
Parse(src) ==
  CASE \E f \in FieldNames : src = FieldSelector(f) ->
         Arrow("x", Member(Identifier("x"),
                           CHOOSE f \in FieldNames : src = FieldSelector(f)))
    [] src = FnIdGt1 ->
         Arrow("u", Binary(">", Member(Identifier("u"), "id"), Literal("1", Num(1))))
    [] src = FnIdLt3 ->
         Arrow("u", Binary("<", Member(Identifier("u"), "id"), Literal("3", Num(3))))
    [] src = FnIdGtFoo ->
         Arrow("u", Binary(">", Member(Identifier("u"), "id"), Identifier("foo")))
    [] src = FnNameEq ->
         Arrow("u", Binary("==", Member(Identifier("u"), "username"), Identifier("name")))
    [] src = FnFlagEq ->
         Arrow("u", Binary("==", Member(Identifier("u"), "role"), Identifier("flag")))
    [] src = FnNothingEq ->
         Arrow("u", Binary("==", Member(Identifier("u"), "role"), Identifier("nothing")))
    [] src = FnIdGtBarNum ->
         Arrow("u", Binary(">", Member(Identifier("u"), "id"),
                                Member(Identifier("bar"), "num")))
    [] src = FnNoSuch ->
         Arrow("u", Binary(">", Member(Identifier("u"), "nosuch"), Literal("1", Num(1))))
    [] src = FnMapId ->
         Arrow("u", ObjectExpression(<<Prop("id", Member(Identifier("u"), "id"))>>))
    [] src = FnMapPick ->
         Arrow("u", ObjectExpression(
           <<Prop("n", Member(Identifier("u"), "idx")),
             Prop("f", Member(Identifier("u"), "fullName"))>>))
    [] src = FnIdxGt1 ->
         Arrow("u", Binary(">", Member(Identifier("u"), "idx"), Literal("1", Num(1))))
    [] src = FnSelIdx ->
         Arrow("x", Member(Identifier("x"), "idx"))
    [] src = FnMapIdx ->
         Arrow("u", ObjectExpression(
           <<Prop("id", Member(Identifier("u"), "id")),
             Prop("idx", Binary("*", Member(Identifier("u"), "id"), Literal("8", Num(8))))>>))
    [] src = FnMapNoSuch ->
         Arrow("u", ObjectExpression(
           <<Prop("id", Member(Identifier("u"), "id")),
             Prop("z", Binary("*", Member(Identifier("u"), "id"),
                                   Identifier("missing")))>>))
    [] src = FnLowerEq ->
         Arrow("u", Binary("==", Call(Member(Identifier("u"), "username"),
                                      "toLowerCase", <<>>),
                                 Literal("'bob'", Str(<<"b", "o", "b">>))))
    [] src = FnStartsWith ->
         Arrow("u", Call(Member(Identifier("u"), "username"), "startsWith",
                         <<Literal("'a'", Str(<<"a">>))>>))
    [] src = FnIncludesStr ->
         Arrow("u", Call(Member(Identifier("u"), "username"), "includes",
                         <<Literal("'a'", Str(<<"a">>))>>))
    [] src = FnSubstring ->
         Arrow("u", Binary("==", Call(Member(Identifier("u"), "username"), "substring",
                                      <<Literal("1", Num(1)), Literal("2", Num(2))>>),
                                 Literal("'o'", Str(<<"o">>))))
    [] src = FnMapFixed ->
         Arrow("u", ObjectExpression(
           <<Prop("id", Member(Identifier("u"), "id")),
             Prop("r", Call(Member(Identifier("u"), "id"), "toFixed",
                            <<Literal("2", Num(2))>>))>>))
    [] src = FnCharAt ->
         Arrow("u", Binary("==", Call(Member(Identifier("u"), "username"), "charAt",
                                      <<Literal("0", Num(0))>>),
                                 Literal("'a'", Str(<<"a">>))))
    [] src = FnBareCall ->
         Arrow("u", CallFn("isAdmin", <<Member(Identifier("u"), "role")>>))
    [] src = FnMapPad ->
         Arrow("u", ObjectExpression(
           <<Prop("id", Member(Identifier("u"), "id")),
             Prop("p", Call(Member(Identifier("u"), "username"), "padStart",
                            <<Literal("5", Num(5))>>))>>))
    [] src = FnSelCharAt ->
         Arrow("x", Call(Member(Identifier("x"), "username"), "charAt",
                         <<Literal("0", Num(0))>>))
    [] src = FnNot -> Arrow("u", Unary("!", Member(Identifier("u"), "role")))
    [] src = FnInArray ->
         Arrow("u", ArrayExpression(<<Literal("1", Num(1)), Literal("2", Num(2))>>))
    [] src = FnMapCond ->
         Arrow("u", ObjectExpression(
           <<Prop("id", Member(Identifier("u"), "id")),
             Prop("r", Conditional(
                         Binary(">", Member(Identifier("u"), "id"), Literal("1", Num(1))),
                         Literal("1", Num(1)), Literal("0", Num(0))))>>))
    [] src = FnSelNeg -> Arrow("x", Unary("-", Member(Identifier("x"), "id")))
    [] src = FnRoleEqNull ->
         Arrow("u", Binary("==", Member(Identifier("u"), "role"), Literal("null", Null)))
    [] src = FnRoleNeNull ->
         Arrow("u", Binary("!=", Member(Identifier("u"), "role"), Literal("null", Null)))
    [] src = FnIdEq ->
         Arrow("u", Binary("==", Member(Identifier("u"), "id"), Literal("1", Num(1))))
    [] src = FnIdNe ->
         Arrow("u", Binary("!=", Member(Identifier("u"), "id"), Literal("1", Num(1))))
    [] src = FnIdStrictEq ->
         Arrow("u", Binary("===", Member(Identifier("u"), "id"), Literal("1", Num(1))))
    [] src = FnIdStrictNe ->
         Arrow("u", Binary("!==", Member(Identifier("u"), "id"), Literal("1", Num(1))))
    [] src = FnMapNested ->
         Arrow("u", ObjectExpression(
           <<Prop("a", ObjectExpression(<<Prop("b", Member(Identifier("u"), "id"))>>))>>))
    [] src = FnMapCourses ->
         Arrow("u", ObjectExpression(
           <<Prop("id", Member(Identifier("u"), "id")),
             Prop("c", Call(Member(Identifier("u"), "courses"), "map",
                            <<Arrow("c", ObjectExpression(
                                <<Prop("cid", Member(Identifier("c"), "id")),
                                  Prop("uid", Member(Identifier("u"), "fullName"))>>))>>))>>))
    [] src = FnMapId8 ->
         Arrow("u", ObjectExpression(
           <<Prop("id", Binary("*", Member(Identifier("u"), "id"), Literal("8", Num(8))))>>))
    [] src = FnSelCoursesId ->
         Arrow("x", Member(Member(Identifier("x"), "courses"), "id"))
    [] src = FnSelNoSuch -> Arrow("x", Member(Identifier("x"), "nosuch"))
    [] src = FnSelWrapped -> Arrow("x", Member(Identifier("x"), "selector"))
    [] OTHER -> [type |-> "Identifier", name |-> src]

(***************************************************************************)
(* The expression translator.  A result is [threw, text]: the SQL text, or *)
(* the message of the Error the translator threw.                          *)
(***************************************************************************)
Ok(text) == [threw |-> FALSE, text |-> text]
Throw(msg) == [threw |-> TRUE, text |-> msg]

\* selects.find((item) => item.alias === path)
FindSelect(selects, path) ==
  IF \E i \in 1..Len(selects) : selects[i].alias = path
  THEN LET i == CHOOSE j \in 1..Len(selects) :
                  /\ selects[j].alias = path
                  /\ \A k \in 1..(j - 1) : selects[k].alias # path
       IN <<selects[i]>>
  ELSE <<>>

\* what the resolver hands back for a scope value: the value itself, which the
\* template strings of exprToString then interpolate
ScopeReplacement(v) == TemplateString(v)

\* the resolver closure of compileSelectEntity / compileSelectSubquery
fieldResolver(selects, scope, path) ==
  LET target == FindSelect(selects, path) IN
  IF target = <<>>
  THEN LET replacement == LodashGet(scope, path) IN
       IF replacement = Undefined THEN "[Unknown target]"
       ELSE ScopeReplacement(replacement)
  ELSE target[1].target

NoArgMethods == {"toLowerCase", "toUpperCase", "trim", "toString", "getFullYear",
                 "getMonth", "getDate", "getHours", "getMinutes", "getSeconds"}

NoArgMethodSql(methodName, objectExpr) ==
  CASE methodName = "toLowerCase" -> "LOWER(" \o objectExpr \o ")"
    [] methodName = "toUpperCase" -> "UPPER(" \o objectExpr \o ")"
    [] methodName = "trim" -> "TRIM(" \o objectExpr \o ")"
    [] methodName = "toString" -> "CAST(" \o objectExpr \o " AS TEXT)"
    [] methodName = "getFullYear" -> "EXTRACT(YEAR FROM " \o objectExpr \o ")"
    [] methodName = "getMonth" -> "(EXTRACT(MONTH FROM " \o objectExpr \o ") - 1)"
    [] methodName = "getDate" -> "EXTRACT(DAY FROM " \o objectExpr \o ")"
    [] methodName = "getHours" -> "EXTRACT(HOUR FROM " \o objectExpr \o ")"
    [] methodName = "getMinutes" -> "EXTRACT(MINUTE FROM " \o objectExpr \o ")"
    [] OTHER -> "EXTRACT(SECOND FROM " \o objectExpr \o ")"

\* args[i]?.value ?? dflt : the value of a literal argument; dflt when the argument
\* is missing, is no literal, or is the literal null
ArgValue(args, i, dflt) ==
  IF Len(args) >= i /\ args[i].type = "Literal" /\ args[i].value.t # "null"
  THEN args[i].value ELSE dflt

\* `${start + 1}` : numeric addition for a number, concatenation for a string
PlusOne(v) == IF v.t = "string" THEN TemplateString(v) \o "1" ELSE ToString(v.n + 1)

\* a faulty variant of CallFallsThrough: the case ends with a break and the
\* later case 'CallExpression' answers
CallBreaks(node) == Ok("[CallExpression]")

\* a CallExpression that returned from none of the method branches: case
\* 'CallExpression' has no break, control falls into case 'LogicalExpression',
\* which calls exprToString(node.left, ...) with node.left undefined
CallFallsThrough(node) ==
  Throw("TypeError: Cannot read properties of undefined (reading 'type')")

\* the method branches of case 'CallExpression', the array form of includes apart
MethodCall(node, methodName, objectExpr) ==
  CASE methodName \in NoArgMethods -> Ok(NoArgMethodSql(methodName, objectExpr))
    [] methodName = "substring" ->
         IF ArgValue(node.arguments, 2, Null) # Null
         THEN Ok("SUBSTRING(" \o objectExpr \o " FROM "
                 \o PlusOne(ArgValue(node.arguments, 1, Num(0))) \o " FOR "
                 \o TemplateString(ArgValue(node.arguments, 2, Null)) \o ")")
         ELSE Ok("SUBSTRING(" \o objectExpr \o " FROM "
                 \o PlusOne(ArgValue(node.arguments, 1, Num(0))) \o ")")
    [] methodName = "includes" ->
         IF node.arguments = <<>>
         THEN Throw("TypeError: Cannot read properties of undefined (reading 'type')")
         ELSE Ok(objectExpr \o " LIKE '%"
                 \o TemplateString(node.arguments[1].value) \o "%'")
    [] methodName = "startsWith" ->
         Ok(objectExpr \o " LIKE '"
            \o TemplateString(ArgValue(node.arguments, 1, Undefined)) \o "%'")
    [] methodName = "endsWith" ->
         Ok(objectExpr \o " LIKE '%"
            \o TemplateString(ArgValue(node.arguments, 1, Undefined)) \o "'")
    [] methodName = "replace" ->
         Ok("REPLACE(" \o objectExpr \o ", '"
            \o TemplateString(ArgValue(node.arguments, 1, Undefined)) \o "', '"
            \o TemplateString(ArgValue(node.arguments, 2, Undefined)) \o "')")
    [] methodName = "toFixed" ->
         Ok("ROUND(" \o objectExpr \o ", "
            \o TemplateString(ArgValue(node.arguments, 1, Num(0))) \o ")")
    [] OTHER -> CallFallsThrough(node)

\* includes(arg) with an argument that is no string literal: the array form
ArrayIncludes(node) ==
  /\ node.callee.property.name = "includes"
  /\ node.arguments # <<>>
  /\ ~(node.arguments[1].type = "Literal" /\ node.arguments[1].valueType = "string")

BinaryOperatorSql(node, op, left, right) ==
  CASE op = "==" -> Ok(left \o " = " \o right)
    [] op = "!=" -> Ok(left \o " <> " \o right)
    [] op \in {">", "<", ">=", "<="} -> Ok(left \o " " \o op \o " " \o right)
    [] op = "+" ->
         LET isDefinitelyNumber ==
               /\ node.left.type = "Literal" /\ node.left.valueType = "number"
               /\ node.right.type = "Literal" /\ node.right.valueType = "number"
         IN IF isDefinitelyNumber THEN Ok("(" \o left \o ") + (" \o right \o ")")
            ELSE Ok("(" \o left \o ")::text || (" \o right \o ")::text")
    [] op \in {"-", "*", "/", "%"} -> Ok("(" \o left \o " " \o op \o " " \o right \o ")")
    [] OTHER -> Throw("Unsupported binary operator: " \o op)

\* the default case of the switch
UnsupportedNode(node) == Ok("[Unsupported Expression]")

RECURSIVE exprToString(_, _, _, _)
\* exprToString(node, scope, fieldResolver): `params` is the scope argument (the
\* arrow function's parameters, each bound to a path prefix); the resolver is
\* given by the projection `selects` and the external scope bag `ext`
exprToString(node, params, selects, ext) ==
  CASE node.type = "CallExpression" ->
         IF node.callee.type # "MemberExpression" THEN CallFallsThrough(node)
         ELSE LET objectExpr == exprToString(node.callee.object, params, selects, ext) IN
              IF objectExpr.threw THEN objectExpr
              ELSE IF ArrayIncludes(node)
                THEN LET valueExpr == exprToString(node.arguments[1], params, selects, ext)
                     IN IF valueExpr.threw THEN valueExpr
                        ELSE Ok(valueExpr.text \o " = ANY(" \o objectExpr.text \o ")")
              ELSE MethodCall(node, node.callee.property.name, objectExpr.text)
    [] node.type = "LogicalExpression" ->
         LET left == exprToString(node.left, params, selects, ext)
             right == exprToString(node.right, params, selects, ext)
         IN IF left.threw THEN left
            ELSE IF right.threw THEN right
            ELSE IF node.operator = "&&"
              THEN Ok("(" \o left.text \o " AND " \o right.text \o ")")
            ELSE IF node.operator = "||"
              THEN Ok("(" \o left.text \o " OR " \o right.text \o ")")
            ELSE Throw("Unsupported logical operator: " \o node.operator)
    [] node.type = "BinaryExpression" ->
         LET left == exprToString(node.left, params, selects, ext)
             right == exprToString(node.right, params, selects, ext)
         IN IF left.threw THEN left
            ELSE IF right.threw THEN right
            ELSE BinaryOperatorSql(node, node.operator, left.text, right.text)
    [] node.type = "MemberExpression" ->
         IF node.object.type = "Identifier"
         THEN LET objName == node.object.name
                  propName == node.property.name
                  objectStr ==
                    IF objName \in DOMAIN params
                    THEN IF params[objName] # ""
                         THEN params[objName] \o "." \o propName
                         ELSE propName
                    ELSE objName \o "." \o propName
              IN Ok(fieldResolver(selects, ext, objectStr))
         ELSE LET inner == exprToString(node.object, params, selects, ext) IN
              IF inner.threw THEN inner
              ELSE Ok(fieldResolver(selects, ext, inner.text \o "." \o node.property.name))
    [] node.type = "Identifier" ->
         LET name == node.name IN
         Ok(fieldResolver(selects, ext,
              IF name \in DOMAIN params /\ params[name] # "" THEN params[name] ELSE name))
    [] node.type = "Literal" -> Ok(node.raw)
    [] node.type = "ObjectExpression" ->
         \* exprToString(node, ...) on the same node: the recursion never ends
         Throw("RangeError: Maximum call stack size exceeded")
    [] OTHER -> UnsupportedNode(node)

\* parseFilter(filterSource, resolver)
parseFilter(filterSource, selects, ext) ==
  LET expression == Parse(filterSource) IN
  IF expression.type # "ArrowFunctionExpression"
  THEN Throw("Expected root expression to be an arrow function")
  ELSE exprToString(expression.body, [p \in {expression.params[1]} |-> ""], selects, ext)

\* parseOrderSelector(source, resolver)
parseOrderSelector(source, selects, ext) ==
  LET expression == Parse(source) IN
  IF expression.type # "ArrowFunctionExpression"
  THEN Throw("Expected root expression to be an arrow function")
  ELSE exprToString(expression.body, [p \in {expression.params[1]} |-> ""], selects, ext)

\* val is <path>.map(...): a call of a member named map
IsMapCall(val) ==
  /\ val.type = "CallExpression"
  /\ val.callee.type = "MemberExpression"
  /\ val.callee.property.name = "map"

\* the path the inner parameter of <arrObj>.map(inner => ...) is bound to
ObjectPath(arrObj, params) ==
  IF arrObj.type = "MemberExpression"
  THEN IF arrObj.object.name \in DOMAIN params /\ params[arrObj.object.name] # ""
       THEN params[arrObj.object.name] \o "." \o arrObj.property.name
       ELSE arrObj.property.name
  ELSE ""

\* a faulty variant of InnerScope: the inner parameter is bound like the outer one
InnerScopeRoot(params, innerParam, objectPath) ==
  [k \in DOMAIN params \cup {innerParam} |-> IF k = innerParam THEN "" ELSE params[k]]

\* { ...scope, [innerParam]: objectPath }
InnerScope(params, innerParam, objectPath) ==
  [k \in DOMAIN params \cup {innerParam} |->
     IF k = innerParam THEN objectPath ELSE params[k]]

\* flatten() of one property: the entries of a nested object under key, each alias
\* prefixed with "key."; an empty object and null stay values of the key itself
FlattenUnder(key, inner) ==
  IF inner.isNull THEN <<[alias |-> key, target |-> "null"]>>
  ELSE IF inner.entries = <<>> THEN <<[alias |-> key, target |-> "[object Object]"]>>
  ELSE [j \in 1..Len(inner.entries) |->
          [alias |-> key \o "." \o inner.entries[j].alias,
           target |-> inner.entries[j].target]]

\* the result of extractMapping: the flattened entries, or the error thrown
Mapping(entries) == [threw |-> FALSE, text |-> "", entries |-> entries, isNull |-> FALSE]
MappingNull == [threw |-> FALSE, text |-> "", entries |-> <<>>, isNull |-> TRUE]
MappingThrow(msg) == [threw |-> TRUE, text |-> msg, entries |-> <<>>, isNull |-> FALSE]

\* the entries of one property followed by those of the properties after it
MappingCons(first, rest) ==
  IF first.threw THEN first
  ELSE IF rest.threw THEN rest
  ELSE Mapping(first.entries \o rest.entries)

\* the entry of a property translated by exprToString
MappingLeaf(key, val) ==
  IF val.threw THEN MappingThrow(val.text)
  ELSE Mapping(<<[alias |-> key, target |-> val.text]>>)

\* the entries of a property whose value is a nested map call
MappingNested(key, inner) ==
  IF inner.threw THEN inner ELSE Mapping(FlattenUnder(key, inner))

RECURSIVE extractMapping(_, _, _, _, _)
\* parseProjection.extractMapping(node, scope), with flatten applied, over the
\* properties of node from index i on: the {alias, target} entries in property
\* order, or the error thrown
extractMapping(props, i, params, selects, ext) ==
  IF i > Len(props) THEN Mapping(<<>>)
  ELSE MappingCons(
         IF IsMapCall(props[i].value)
         THEN IF props[i].value.arguments = <<>>
              THEN MappingThrow("TypeError: Cannot read properties of undefined (reading 'params')")
              ELSE IF props[i].value.arguments[1].body.type # "ObjectExpression"
              THEN MappingNested(props[i].key, MappingNull)
              ELSE MappingNested(props[i].key,
                     extractMapping(props[i].value.arguments[1].body.properties, 1,
                                    InnerScope(params, props[i].value.arguments[1].params[1],
                                               ObjectPath(props[i].value.callee.object, params)),
                                    selects, ext))
         ELSE IF props[i].value.type = "ObjectExpression"
         THEN \* extractMapping(node, scope) on the node being processed
              MappingThrow("RangeError: Maximum call stack size exceeded")
         ELSE MappingLeaf(props[i].key,
                          exprToString(props[i].value, params, selects, ext)),
         extractMapping(props, i + 1, params, selects, ext))

\* parseProjection(mapper, resolver)
parseProjection(mapper, selects, ext) ==
  LET root == Parse(mapper) IN
  IF root.type # "ArrowFunctionExpression"
  THEN MappingThrow("Expected root expression to be an arrow function")
  ELSE IF root.body.type # "ObjectExpression"
  THEN MappingThrow("Expected arrow function body to be an object literal")
  ELSE extractMapping(root.body.properties, 1, [p \in {root.params[1]} |-> ""],
                      selects, ext)

(***************************************************************************)
(* The schema the decorators of the example entities install.              *)
(***************************************************************************)
\* getTableMetadata(entity).name
TableName(entity) == IF entity = "User" THEN "users" ELSE "courses"

\* Object.values(getColumnsMetadata(entity)), in declaration order
ColumnsMetadata(entity) ==
  IF entity = "User"
  THEN <<[name |-> "id", fieldName |-> "id"],
         [name |-> "username", fieldName |-> "username"],
         [name |-> "full_name", fieldName |-> "fullName"],
         [name |-> "role", fieldName |-> "role"]>>
  ELSE <<[name |-> "id", fieldName |-> "id"],
         [name |-> "name", fieldName |-> "name"],
         [name |-> "description", fieldName |-> "description"]>>

\* getRelationsMetadata(entity): the relations by field name ("" stands for an
\* option the declaration leaves out)
RelationsMetadata(entity) ==
  IF entity = "User"
  THEN [courses |-> [fieldName |-> "courses", target |-> "Course", type |-> "",
                     foreignKey |-> "id", principalKey |-> "id"]]
  ELSE [r \in {} |-> [fieldName |-> "", target |-> "", type |-> "",
                      foreignKey |-> "", principalKey |-> ""]]

Quoted(s) == "\"" \o s \o "\""

(***************************************************************************)
(* Operation records.  The JavaScript record is {type, data}; the payload  *)
(* is `num` for skip / take, `str` for include (the relation) and for      *)
(* filter / map / order (the function, by source text), `direction` for    *)
(* order, and `captured` is the variable the function closes over.         *)
(***************************************************************************)
Op(type, num, str, direction, captured) ==
  [type |-> type, num |-> num, str |-> str, direction |-> direction,
   captured |-> captured]

(***************************************************************************)
(* PostgresQueryCompiler.                                                  *)
(***************************************************************************)
\* uniqueAlias() when the counter _aliasNum is n
uniqueAlias(n) == "___t" \o ToString(n)

\* one clause pushed on queryParts: its keyword, its text and what it was built from
\* (the aliases for FROM and the JOINs, the conjuncts for WHERE, the entries for
\* ORDER BY, the number for OFFSET and LIMIT)
Clause(kw, text, list, num) == [kw |-> kw, text |-> text, list |-> list, num |-> num]

SelectTexts(selects) ==
  [i \in 1..Len(selects) |-> selects[i].target \o " AS " \o Quoted(selects[i].alias)]

JoinTexts(joins, fromAlias) ==
  [i \in 1..Len(joins) |->
     joins[i].type \o " JOIN " \o joins[i].target \o " AS " \o Quoted(joins[i].alias)
       \o " ON " \o Quoted(fromAlias) \o "." \o Quoted(joins[i].foreignKey)
       \o "=" \o Quoted(joins[i].alias) \o "." \o Quoted(joins[i].principalKey)]

WhereText(wheres) ==
  "WHERE " \o JoinStr([i \in 1..Len(wheres) |-> "(" \o wheres[i] \o ")"], " AND ")

OrderText(orders) ==
  "ORDER BY " \o
    JoinStr([i \in 1..Len(orders) |-> orders[i].by \o " " \o orders[i].dir], ",")

\* the loop state of compileSelectEntity / compileSelectSubquery before the first op
LoopStart(selects) ==
  [distinct |-> FALSE, selects |-> selects, joins |-> <<>>, wheres |-> <<>>,
   orders |-> <<>>, offset |-> 0, limit |-> 0, threw |-> FALSE, error |-> ""]

LoopThrow(st, msg) == [st EXCEPT !.threw = TRUE, !.error = msg]

\* toUpperCase on the join kinds a relation can declare
UpperCase(s) ==
  CASE s = "left" -> "LEFT" [] s = "inner" -> "INNER" [] s = "right" -> "RIGHT"
    [] OTHER -> s

\* case 'include' of compileSelectEntity
IncludeStep(st, entityType, op) ==
  LET include == op.str
      mainRelationMeta == RelationsMetadata(entityType)
  IN IF include \notin DOMAIN mainRelationMeta
     THEN LoopThrow(st, "TypeError: Cannot read properties of undefined (reading 'target')")
     ELSE LET joinRelationMeta == mainRelationMeta[include]
              joinEntity == joinRelationMeta.target
              joinColumnMeta == ColumnsMetadata(joinEntity)
              joinTableAlias == "___t" \o ToString(Len(st.joins) + 1)
          IN [st EXCEPT
                !.joins = Append(@,
                   [alias |-> joinTableAlias,
                    target |-> Quoted(TableName(joinEntity)),
                    type |-> UpperCase(IF joinRelationMeta.type # ""
                                       THEN joinRelationMeta.type ELSE "left"),
                    foreignKey |-> IF joinRelationMeta.foreignKey # ""
                                   THEN joinRelationMeta.foreignKey ELSE "1",
                    principalKey |-> IF joinRelationMeta.principalKey # ""
                                     THEN joinRelationMeta.principalKey ELSE "1"]),
                !.selects = @ \o
                   [i \in 1..Len(joinColumnMeta) |->
                      [alias |-> joinRelationMeta.fieldName \o "." \o
                                 joinColumnMeta[i].fieldName,
                       target |-> Quoted(joinTableAlias) \o "." \o
                                  Quoted(joinColumnMeta[i].name)]]]

\* a faulty variant of MapStep: the aliases of the map are put in front of the
\* selects it read, which stay resolvable
MapStepKeep(st, op, scope) ==
  LET r == parseProjection(op.str, st.selects, scope) IN
  IF r.threw THEN LoopThrow(st, r.text) ELSE [st EXCEPT !.selects = r.entries \o @]

\* case 'map'
MapStep(st, op, scope) ==
  LET r == parseProjection(op.str, st.selects, scope) IN
  IF r.threw THEN LoopThrow(st, r.text) ELSE [st EXCEPT !.selects = r.entries]

\* a faulty variant of FilterStep: wheres.unshift(where)
FilterStepUnshift(st, op, scope) ==
  LET where == parseFilter(op.str, st.selects, scope) IN
  IF where.threw THEN LoopThrow(st, where.text)
  ELSE [st EXCEPT !.wheres = <<where.text>> \o @]

\* case 'filter'
FilterStep(st, op, scope) ==
  LET where == parseFilter(op.str, st.selects, scope) IN
  IF where.threw THEN LoopThrow(st, where.text)
  ELSE [st EXCEPT !.wheres = Append(@, where.text)]

\* case 'order'
OrderStep(st, op, scope) ==
  LET by == parseOrderSelector(op.str, st.selects, scope) IN
  IF by.threw THEN LoopThrow(st, by.text)
  ELSE [st EXCEPT !.orders = Append(@, [by |-> by.text, dir |-> op.direction])]

\* the cases the two switch statements share
CommonStep(st, op, scope) ==
  CASE op.type = "map" -> MapStep(st, op, scope)
    [] op.type = "filter" -> FilterStep(st, op, scope)
    [] op.type = "order" -> OrderStep(st, op, scope)
    [] op.type = "distinct" -> [st EXCEPT !.distinct = TRUE]
    [] op.type = "skip" -> [st EXCEPT !.offset = op.num]
    [] op.type = "take" -> [st EXCEPT !.limit = op.num]
    [] OTHER -> st

\* one iteration of the switch of compileSelectEntity
EntityStep(st, entityType, op, scope) ==
  IF op.type = "include" THEN IncludeStep(st, entityType, op)
  ELSE CommonStep(st, op, scope)

\* one iteration of the switch of compileSelectSubquery, which has no case 'include'
SubqueryStep(st, op, scope) == CommonStep(st, op, scope)

RECURSIVE EntityLoop(_, _, _, _, _)
\* for (const op of ops) of compileSelectEntity, from index i on
EntityLoop(st, entityType, ops, i, scope) ==
  IF i > Len(ops) \/ st.threw THEN st
  ELSE EntityLoop(EntityStep(st, entityType, ops[i], scope), entityType, ops, i + 1, scope)

RECURSIVE SubqueryLoop(_, _, _, _)
\* for (const op of ops) of compileSelectSubquery, from index i on
SubqueryLoop(st, ops, i, scope) ==
  IF i > Len(ops) \/ st.threw THEN st
  ELSE SubqueryLoop(SubqueryStep(st, ops[i], scope), ops, i + 1, scope)

\* queryParts of compileSelectEntity
EntityParts(st, fromTarget, fromAlias) ==
  <<Clause(IF st.distinct THEN "SELECT DISTINCT" ELSE "SELECT",
           IF st.distinct THEN "SELECT DISTINCT" ELSE "SELECT", <<>>, 0),
    Clause("PROJECTION", JoinStr(SelectTexts(st.selects), ","), <<>>, 0),
    Clause("FROM", "FROM " \o fromTarget \o " AS " \o Quoted(fromAlias), <<fromAlias>>, 0),
    Clause("JOINS", JoinStr(JoinTexts(st.joins, fromAlias), ","),
           [i \in 1..Len(st.joins) |-> st.joins[i].alias], 0)>>
  \o (IF Len(st.wheres) # 0
      THEN <<Clause("WHERE", WhereText(st.wheres), st.wheres, 0)>> ELSE <<>>)
  \o (IF Len(st.orders) # 0
      THEN <<Clause("ORDER BY", OrderText(st.orders),
                    [i \in 1..Len(st.orders) |-> st.orders[i].by \o " " \o st.orders[i].dir],
                    0)>>
      ELSE <<>>)
  \o (IF st.offset # 0
      THEN <<Clause("OFFSET", "OFFSET " \o ToString(st.offset), <<>>, st.offset)>>
      ELSE <<>>)
  \o (IF st.limit # 0
      THEN <<Clause("LIMIT", "LIMIT " \o ToString(st.limit), <<>>, st.limit)>>
      ELSE <<>>)

\* queryParts of compileSelectSubquery: the joins are pushed twice and the
\* orders are not pushed
SubqueryParts(st, fromTarget, fromAlias) ==
  <<Clause(IF st.distinct THEN "SELECT DISTINCT" ELSE "SELECT",
           IF st.distinct THEN "SELECT DISTINCT" ELSE "SELECT", <<>>, 0),
    Clause("PROJECTION", JoinStr(SelectTexts(st.selects), ","), <<>>, 0),
    Clause("FROM", "FROM " \o fromTarget \o " AS " \o Quoted(fromAlias), <<fromAlias>>, 0),
    Clause("JOINS", JoinStr(JoinTexts(st.joins, fromAlias), ","),
           [i \in 1..Len(st.joins) |-> st.joins[i].alias], 0),
    Clause("JOINS", JoinStr(JoinTexts(st.joins, fromAlias), ","),
           [i \in 1..Len(st.joins) |-> st.joins[i].alias], 0)>>
  \o (IF Len(st.wheres) # 0
      THEN <<Clause("WHERE", WhereText(st.wheres), st.wheres, 0)>> ELSE <<>>)
  \o (IF st.offset # 0
      THEN <<Clause("OFFSET", "OFFSET " \o ToString(st.offset), <<>>, st.offset)>>
      ELSE <<>>)
  \o (IF st.limit # 0
      THEN <<Clause("LIMIT", "LIMIT " \o ToString(st.limit), <<>>, st.limit)>>
      ELSE <<>>)

\* queryParts.join(' ')
SqlOf(parts) == JoinStr([i \in 1..Len(parts) |-> parts[i].text], " ")

\* a CompiledQuery {sql, params, alias, columns}, with the queryParts it was joined
\* from, the compiled sub-queries it wraps (innermost first), the value of the
\* alias counter after it, and the Error when compilation threw instead
Compiled(parts, alias, columns, inner, aliasNum) ==
  [threw |-> FALSE, error |-> "", sql |-> SqlOf(parts), alias |-> alias,
   columns |-> columns, parts |-> parts, inner |-> inner, aliasNum |-> aliasNum]

CompileThrow(msg) ==
  [threw |-> TRUE, error |-> msg, sql |-> "", alias |-> "", columns |-> <<>>,
   parts |-> <<>>, inner |-> <<>>, aliasNum |-> 0]

\* the CompiledQuery compileSelectEntity returns once its loop has ended in st
EntityResult(st, fromTarget, fromAlias, aliasNum) ==
  IF st.threw THEN CompileThrow(st.error)
  ELSE Compiled(EntityParts(st, fromTarget, fromAlias), uniqueAlias(aliasNum + 1),
                [i \in 1..Len(st.selects) |-> st.selects[i].alias], <<>>,
                aliasNum + 2)

\* the seed projection of compileSelectEntity: one select per column descriptor
EntitySeed(columnMeta, fromAlias) ==
  [i \in 1..Len(columnMeta) |->
     [target |-> Quoted(fromAlias) \o "." \o Quoted(columnMeta[i].name),
      alias |-> columnMeta[i].fieldName]]

\* compileSelectEntity(entityType, ops, scope), entered with the alias counter at aliasNum
compileSelectEntity(entityType, ops, scope, aliasNum) ==
  EntityResult(
    EntityLoop(LoopStart(EntitySeed(ColumnsMetadata(entityType), uniqueAlias(aliasNum))),
               entityType, ops, 1, scope),
    Quoted(TableName(entityType)), uniqueAlias(aliasNum), aliasNum)

\* the CompiledQuery compileSelectSubquery returns once its loop has ended in st
SubqueryResult(st, subquery, fromTarget, fromAlias, aliasNum) ==
  IF st.threw THEN CompileThrow(st.error)
  ELSE Compiled(SubqueryParts(st, fromTarget, fromAlias), uniqueAlias(aliasNum + 1),
                [i \in 1..Len(st.selects) |-> st.selects[i].alias],
                subquery.inner \o <<subquery.parts>>, aliasNum + 2)

\* a faulty variant of SubquerySeed: the columns of the sub-query are not exposed
SubquerySeedNone(columns, fromAlias) == <<>>

\* the seed projection of compileSelectSubquery: one select per column of the sub-query
SubquerySeed(columns, fromAlias) ==
  [i \in 1..Len(columns) |->
     [target |-> Quoted(fromAlias) \o "." \o Quoted(columns[i]), alias |-> columns[i]]]

\* compileSelectSubquery(subquery, ops, scope), entered with the alias counter at aliasNum
compileSelectSubquery(subquery, ops, scope, aliasNum) ==
  SubqueryResult(
    SubqueryLoop(LoopStart(SubquerySeed(subquery.columns, uniqueAlias(aliasNum))),
                 ops, 1, scope),
    subquery, "(" \o subquery.sql \o ")", uniqueAlias(aliasNum), aliasNum)

RECURSIVE SplitFrom(_, _, _, _)
\* the loop of splitOps from index i on: `groups` closed so far, `group` open
SplitFrom(ops, i, groups, group) ==
  IF i > Len(ops) THEN (IF Len(group) > 0 THEN Append(groups, group) ELSE groups)
  ELSE IF /\ ops[i].type = "map"
          /\ i > 1
          /\ ops[i - 1].type \in {"skip", "take"}
       THEN SplitFrom(ops, i + 1, Append(groups, group), <<ops[i]>>)
       ELSE SplitFrom(ops, i + 1, groups, Append(group, ops[i]))

\* a faulty variant of splitOps: the operations are never split
splitOpsWhole(ops) == IF ops = <<>> THEN <<>> ELSE <<ops>>

\* splitOps(ops)
splitOps(ops) == SplitFrom(ops, 1, <<>>, <<>>)

RECURSIVE CompileGroups(_, _, _, _)
\* for (const group of otherGroups) of compileSelect, from index i on
CompileGroups(compiled, groups, i, scope) ==
  IF i > Len(groups) \/ compiled.threw THEN compiled
  ELSE CompileGroups(compileSelectSubquery(compiled, groups[i], scope, compiled.aliasNum),
                     groups, i + 1, scope)

\* new PostgresQueryCompiler().compileSelect(entityType, ops, scope).  With no
\* operation splitOps returns no group, firstGroup is undefined and the for-of
\* of compileSelectEntity throws.
compileSelect(entityType, ops, scope) ==
  LET groups == splitOps(ops) IN
  IF groups = <<>> THEN CompileThrow("TypeError: ops is not iterable")
  ELSE CompileGroups(compileSelectEntity(entityType, groups[1], scope, 0),
                     groups, 2, scope)

(***************************************************************************)
(* The database behind the pool: the rows of "users", by id, and what      *)
(* PostgreSQL answers to a compiled statement.  A row is identified by its *)
(* id; the conjuncts and order entries the database understands are the    *)
(* ones over the id column of the root table.                              *)
(***************************************************************************)
UsersRows == [i \in 1..NRows |-> i]

RootId == Quoted(uniqueAlias(0)) \o "." \o Quoted("id")

KnownWheres == {RootId \o " > 1", RootId \o " < 3"}
KnownOrders == {RootId \o " asc", RootId \o " desc"}

\* whether row satisfies a conjunct of KnownWheres
SqlHolds(where, row) == IF where = RootId \o " > 1" THEN row > 1 ELSE row < 3

RECURSIVE KeepRows(_, _)
\* the rows that satisfy every conjunct
KeepRows(rows, wheres) ==
  IF rows = <<>> THEN <<>>
  ELSE (IF \A i \in 1..Len(wheres) : SqlHolds(wheres[i], Head(rows))
        THEN <<Head(rows)>> ELSE <<>>) \o KeepRows(Tail(rows), wheres)

Reverse(rows) == [i \in 1..Len(rows) |-> rows[Len(rows) + 1 - i]]

\* OFFSET n
DropRows(rows, n) == IF n >= Len(rows) THEN <<>> ELSE SubSeq(rows, n + 1, Len(rows))
\* LIMIT n
FirstRows(rows, n) == IF n >= Len(rows) THEN rows ELSE SubSeq(rows, 1, n)

ClauseOf(parts, kw) == SelectSeq(parts, LAMBDA c : c.kw = kw)

\* one SELECT over `rows`: WHERE, then ORDER BY, then OFFSET, then LIMIT
RunSelect(rows, parts) ==
  LET where == ClauseOf(parts, "WHERE")
      order == ClauseOf(parts, "ORDER BY")
      offset == ClauseOf(parts, "OFFSET")
      limit == ClauseOf(parts, "LIMIT")
      kept == IF where = <<>> THEN rows ELSE KeepRows(rows, where[1].list)
      sorted == IF order # <<>> /\ order[1].list[1] = RootId \o " desc"
                THEN Reverse(kept) ELSE kept
      skipped == IF offset = <<>> THEN sorted ELSE DropRows(sorted, offset[1].num)
  IN IF limit = <<>> THEN skipped ELSE FirstRows(skipped, limit[1].num)

\* the statement is one the database model understands; two JOIN clauses come
\* out with a comma between them, which is a syntax error
Understood(parts) ==
  /\ \A i \in 1..Len(parts) :
       /\ parts[i].kw = "JOINS" => Len(parts[i].list) <= 1
       /\ parts[i].kw = "WHERE" => \A j \in 1..Len(parts[i].list) : parts[i].list[j] \in KnownWheres
       /\ parts[i].kw = "ORDER BY" => \A j \in 1..Len(parts[i].list) : parts[i].list[j] \in KnownOrders

RECURSIVE RunSelects(_, _, _)
\* the SELECTs of a statement, innermost first
RunSelects(rows, selects, i) ==
  IF i > Len(selects) THEN rows
  ELSE RunSelects(RunSelect(rows, selects[i]), selects, i + 1)

\* client.query(compiled.sql): the rows, or the error of the backend
Query(compiled) ==
  LET selects == compiled.inner \o <<compiled.parts>> IN
  IF \A i \in 1..Len(selects) : Understood(selects[i])
  THEN [threw |-> FALSE, rows |-> RunSelects(UsersRows, selects, 1)]
  ELSE [threw |-> TRUE, rows |-> <<>>]

(***************************************************************************)
(* Rows as objects.  The row the backend returns for the user `id` is the  *)
(* flat object with one key per column alias; the value of a column is     *)
(* kept symbolic, as [col, row].  An object is a function from keys to     *)
(* nodes [leaf, value, kids].                                              *)
(***************************************************************************)
ColumnValue(alias, id) == [col |-> alias, row |-> id]
NoValue == [col |-> "", row |-> 0]
LeafNode(value) == [leaf |-> TRUE, value |-> value, kids |-> <<>>]
BranchNode(kids) == [leaf |-> FALSE, value |-> NoValue, kids |-> kids]

\* result.rows[i]: the flat object of one row
FlatRow(columns, id) ==
  [a \in {columns[j] : j \in 1..Len(columns)} |-> LeafNode(ColumnValue(a, id))]

\* the dotted aliases the compiler of the model can produce, by segments
DotPaths ==
  {<<"courses", ColumnsMetadata("Course")[j].fieldName>> :
     j \in 1..Len(ColumnsMetadata("Course"))}
  \cup {<<"c", "cid">>, <<"c", "uid">>, <<"a", "b">>}

\* alias.split('.')
KeyPath(alias) ==
  IF \E p \in DotPaths : JoinStr(p, ".") = alias
  THEN CHOOSE p \in DotPaths : JoinStr(p, ".") = alias
  ELSE <<alias>>

RECURSIVE Tree(_)
\* the object with, for every <<path, node>> of pairs, the node at the path
\* (where one path ends inside another, the shorter one keeps its node)
Tree(pairs) ==
  [k \in {p[1][1] : p \in pairs} |->
     IF \E p \in pairs : p[1] = <<k>>
     THEN (CHOOSE p \in pairs : p[1] = <<k>>)[2]
     ELSE BranchNode(Tree({<<Tail(p[1]), p[2]>> : p \in {r \in pairs : r[1][1] = k}}))]

\* unflatten(v) of the package flat
unflatten(v) == Tree({<<KeyPath(a), v[a]>> : a \in DOMAIN v})

\* a faulty variant of Rehydrate: the rows are returned as the backend gave them
RehydrateNot(rows, columns) == [i \in 1..Len(rows) |-> FlatRow(columns, rows[i])]

\* result.rows.map((v) => unflatten(v))
Rehydrate(rows, columns) == [i \in 1..Len(rows) |-> unflatten(FlatRow(columns, rows[i]))]

(***************************************************************************)
(* PostgresEngine.                                                         *)
(***************************************************************************)
\* what a terminal call leaves behind: the state the engine received, the compiled
\* query, and how the promise settled
EngineOutcome(state, compiled, answer) ==
  [state |-> state, compiled |-> compiled,
   rejected |-> compiled.threw \/ answer.threw,
   rows |-> IF compiled.threw \/ answer.threw THEN <<>> ELSE answer.rows,
   objects |-> IF compiled.threw \/ answer.threw THEN <<>>
               ELSE Rehydrate(answer.rows, compiled.columns)]

\* the rest of PostgresEngine.toArray once compileSelect has returned or thrown
RunCompiled(state, compiled) ==
  IF compiled.threw
  THEN EngineOutcome(state, compiled, [threw |-> FALSE, rows |-> <<>>])
  ELSE EngineOutcome(state, compiled, Query(compiled))

\* PostgresEngine.toArray(state)
EngineToArray(state) ==
  RunCompiled(state, compileSelect(state.entityType, state.ops, state.scope))

(***************************************************************************)
(* DbSet, the queryable builder.  A builder is [ops, scope].               *)
(***************************************************************************)
\* new DbSet(instance, entityType)
FreshDbSet == [ops |-> <<>>, scope |-> EmptyScope]

\* the scope bag a clone starts with: that of the builder it was cloned from
CarriedScope(this) == this.scope

\* a faulty variant of MergeScope: { ...bag, ...scope }, the earlier value wins
MergeScopeKeepOld(scope, bag) ==
  [k \in DOMAIN scope \cup DOMAIN bag |-> IF k \in DOMAIN scope THEN scope[k] ELSE bag[k]]

\* { ...scope, ...bag }
MergeScope(scope, bag) ==
  [k \in DOMAIN scope \cup DOMAIN bag |-> IF k \in DOMAIN bag THEN bag[k] ELSE scope[k]]

\* the scope field of the snapshot getState() returns
StateScope(this) == this.scope

\* a faulty variant of withOp: the clone starts from an empty operation list
withOpFresh(bs, this, op) ==
  Append(bs, [ops |-> <<op>>, scope |-> CarriedScope(bs[this])])

\* a faulty variant of withOp: push on the array of `this` and share it with the
\* clone
withOpInPlace(bs, this, op) ==
  LET pushed == [bs EXCEPT ![this].ops = Append(@, op)] IN
  Append(pushed, [ops |-> pushed[this].ops, scope |-> CarriedScope(pushed[this])])

\* DbSet._withOp(op) on builder number `this` of the builders bs: the builders
\* afterwards, the clone last
withOp(bs, this, op) ==
  Append(bs, [ops |-> Append(bs[this].ops, op), scope |-> CarriedScope(bs[this])])

\* DbSet.getState()
getState(this) == [entityType |-> "User", ops |-> this.ops, scope |-> StateScope(this)]

\* the selector argument of orderBy / orderByDescending: a function, by source
\* text, or a field-name string
FnArg(src) == [isString |-> FALSE, v |-> src]
StringArg(name) == [isString |-> TRUE, v |-> name]

\* the order record DbSet.orderBy / orderByDescending builds
OrderOp(selector, direction) ==
  IF selector.isString
  THEN Op("order", 0, FnSelWrapped, direction, selector.v)
  ELSE Op("order", 0, selector.v, direction, "")

(***************************************************************************)
(* The arguments the callers of the model pass.                            *)
(***************************************************************************)
ScopeFoo1 == [foo |-> Num(1)]
ScopeFoo2 == [foo |-> Num(2), bar |-> Obj({<<"num", Num(123)>>})]
ScopeRich ==
  [foo |-> Num(1), name |-> Str(<<"O", "'", "B">>), flag |-> Bool(TRUE),
   nothing |-> Null, bar |-> Obj({<<"num", Num(123)>>})]

IncludeArgs == {"courses"}
FilterArgs == {FnIdGt1}
SkipArgs == {NRows}
TakeArgs == {2}
MapArgs == {FnMapId}
OrderArgs == {FnArg(FnSelId), StringArg("id")}
ScopeArgs == {ScopeFoo1, ScopeFoo2}

ChainMethods == {"include", "filter", "skip", "take", "map", "distinct", "orderBy",
                 "orderByDescending"}

NoOutcome ==
  EngineOutcome([entityType |-> "", ops |-> <<>>, scope |-> EmptyScope],
                CompileThrow(""), [threw |-> FALSE, rows |-> <<>>])

\* the record of a call: the method, the builder it was called on, the builder it
\* returned (0: none), the bag passed to scope, what the engine did, and the value
\* first() resolved to (<<>>: undefined)
CallRecord(kind, this, ret, bag, outcome, value) ==
  [kind |-> kind, this |-> this, ret |-> ret, bag |-> bag, outcome |-> outcome,
   value |-> value]

CanClone(this) == this \in 1..Len(builders) /\ Len(builders) < MaxBuilders

\* the record of a chain call that returned the newest of the builders bs
ChainRecord(kind, this, bs) == CallRecord(kind, this, Len(bs), EmptyScope, NoOutcome, <<>>)

include(this, navigation) ==
  /\ CanClone(this)
  /\ builders' = withOp(builders, this, Op("includes", 0, navigation, "", ""))
  /\ last' = ChainRecord("include", this, builders')
  /\ UNCHANGED <<q, calls, pool, schema>>

filter(this, predicate) ==
  /\ CanClone(this)
  /\ builders' = withOp(builders, this, Op("filter", 0, predicate, "", ""))
  /\ last' = ChainRecord("filter", this, builders')
  /\ UNCHANGED <<q, calls, pool, schema>>

skip(this, n) ==
  /\ CanClone(this)
  /\ builders' = withOp(builders, this, Op("skip", n, "", "", ""))
  /\ last' = ChainRecord("skip", this, builders')
  /\ UNCHANGED <<q, calls, pool, schema>>

take(this, n) ==
  /\ CanClone(this)
  /\ builders' = withOp(builders, this, Op("take", n, "", "", ""))
  /\ last' = ChainRecord("take", this, builders')
  /\ UNCHANGED <<q, calls, pool, schema>>

map(this, selector) ==
  /\ CanClone(this)
  /\ builders' = withOp(builders, this, Op("map", 0, selector, "", ""))
  /\ last' = ChainRecord("map", this, builders')
  /\ UNCHANGED <<q, calls, pool, schema>>

distinct(this) ==
  /\ CanClone(this)
  /\ builders' = withOp(builders, this, Op("distinct", 1, "", "", ""))
  /\ last' = ChainRecord("distinct", this, builders')
  /\ UNCHANGED <<q, calls, pool, schema>>

orderBy(this, selector) ==
  /\ CanClone(this)
  /\ builders' = withOp(builders, this, OrderOp(selector, "asc"))
  /\ last' = ChainRecord("orderBy", this, builders')
  /\ UNCHANGED <<q, calls, pool, schema>>

orderByDescending(this, selector) ==
  /\ CanClone(this)
  /\ builders' = withOp(builders, this, OrderOp(selector, "desc"))
  /\ last' = ChainRecord("orderByDescending", this, builders')
  /\ UNCHANGED <<q, calls, pool, schema>>

\* scope(bag): a fresh builder with the same operations and the merged scope
scope(this, bag) ==
  /\ CanClone(this)
  /\ builders' = Append(builders, [ops |-> builders[this].ops,
                                   scope |-> MergeScope(builders[this].scope, bag)])
  /\ last' = CallRecord("scope", this, Len(builders'), bag, NoOutcome, <<>>)
  /\ UNCHANGED <<q, calls, pool, schema>>

\* DbSet.toArray()
toArray(this) ==
  /\ this \in 1..Len(builders)
  /\ last' = CallRecord("toArray", this, 0, EmptyScope,
                        EngineToArray(getState(builders[this])), <<>>)
  /\ UNCHANGED <<builders, q, calls, pool, schema>>

\* arr[0] of the array a terminal call resolved to (<<>>: undefined)
ElementZero(rows) == IF rows = <<>> THEN <<>> ELSE <<rows[1]>>

\* the record of a first() call whose engine call ended in outcome
FirstRecord(this, outcome) ==
  CallRecord("first", this, 0, EmptyScope, outcome, ElementZero(outcome.rows))

\* the builders after take(1) has cloned builder `this` and the clone, which is the
\* last of `cloned`, has been let go
WithoutClone(cloned) == SubSeq(cloned, 1, Len(cloned) - 1)

\* the clone _withOp made
Clone(cloned) == cloned[Len(cloned)]

\* DbSet.first(): (await this.take(1).toArray())[0]
FirstOn(this, cloned) ==
  /\ builders' = WithoutClone(cloned)
  /\ last' = FirstRecord(this, EngineToArray(getState(Clone(cloned))))

first(this) ==
  /\ this \in 1..Len(builders)
  /\ FirstOn(this, withOp(builders, this, Op("take", 1, "", "", "")))
  /\ UNCHANGED <<q, calls, pool, schema>>

(***************************************************************************)
(* The schema registry: the decorators Column and HasMany store one        *)
(* metadata object per key on an entity constructor with Reflect.          *)
(* defineMetadata and read it back with Reflect.getMetadata.  An object is *)
(* known by its number in `objs`, so that two constructors can hold the    *)
(* same object; `own` is the object a constructor holds itself (0: none).  *)
(***************************************************************************)
Classes == {"Base", "Derived", "Other"}

\* Object.getPrototypeOf(constructor) for `class Derived extends Base` ("": none
\* that carries metadata)
ParentOf(class) == IF class = "Derived" THEN "Base" ELSE ""

MetadataKeys == {"COLUMN_METADATA_KEY", "RELATION_METADATA_KEY"}

\* no class declared, no metadata stored
NoSchema ==
  [own |-> [key \in MetadataKeys |-> [class \in Classes |-> 0]],
   objs |-> <<>>, open |-> "", declared |-> {}]

RECURSIVE ReflectGetMetadata(_, _, _)
\* Reflect.getMetadata(key, target) of reflect-metadata: the metadata target holds
\* itself, else that of its prototype chain (0: undefined)
ReflectGetMetadata(s, key, target) ==
  IF target = "" THEN 0
  ELSE IF s.own[key][target] # 0 THEN s.own[key][target]
  ELSE ReflectGetMetadata(s, key, ParentOf(target))

\* existingMetadata[propertyKey] = entry on a plain object: a known key keeps its
\* place, a new key goes last
SetProperty(obj, entry) ==
  IF \E i \in 1..Len(obj) : obj[i].key = entry.key
  THEN [i \in 1..Len(obj) |-> IF obj[i].key = entry.key THEN entry ELSE obj[i]]
  ELSE Append(obj, entry)

\* the body both decorators share, once Reflect.getMetadata has returned
\* `existing`: `|| {}` makes a new object when there is none, the entry is stored
\* in the object and Reflect.defineMetadata puts the object on the constructor
StoreEntry(s, key, class, entry, existing) ==
  IF existing = 0
  THEN [s EXCEPT !.objs = Append(@, <<entry>>), !.own[key][class] = Len(s.objs) + 1]
  ELSE [s EXCEPT !.objs[existing] = SetProperty(@, entry), !.own[key][class] = existing]

\* the descriptor of a column or a relation ("" for what it does not have)
Descriptor(key, name, target) ==
  [key |-> key, fieldName |-> key, name |-> name, target |-> target]

\* getColumnsMetadata(target): Reflect.getMetadata(COLUMN_METADATA_KEY, target) || {}
getColumnsMetadata(s, target) ==
  IF ReflectGetMetadata(s, "COLUMN_METADATA_KEY", target) = 0 THEN <<>>
  ELSE s.objs[ReflectGetMetadata(s, "COLUMN_METADATA_KEY", target)]

\* getRelationsMetadata(target): Reflect.getMetadata(RELATION_METADATA_KEY, target) || []
getRelationsMetadata(s, target) ==
  IF ReflectGetMetadata(s, "RELATION_METADATA_KEY", target) = 0 THEN <<>>
  ELSE s.objs[ReflectGetMetadata(s, "RELATION_METADATA_KEY", target)]

\* a call that has not been made yet
IdleCall ==
  [pc |-> "idle", state |-> getState(FreshDbSet), threw |-> FALSE, acquired |-> 0,
   released |-> 0, executed |-> 0, settled |-> "none"]

NoCalls == [c \in 1..MaxCalls |-> IdleCall]

Init ==
  /\ builders = <<FreshDbSet>>
  /\ q = getState(FreshDbSet)
  /\ last = CallRecord("none", 0, 0, EmptyScope, NoOutcome, <<>>)
  /\ calls = NoCalls
  /\ pool = {}
  /\ schema = NoSchema

Next ==
  \/ \E this \in 1..MaxBuilders : \E navigation \in IncludeArgs : include(this, navigation)
  \/ \E this \in 1..MaxBuilders : \E predicate \in FilterArgs : filter(this, predicate)
  \/ \E this \in 1..MaxBuilders : \E n \in SkipArgs : skip(this, n)
  \/ \E this \in 1..MaxBuilders : \E n \in TakeArgs : take(this, n)
  \/ \E this \in 1..MaxBuilders : \E selector \in MapArgs : map(this, selector)
  \/ \E this \in 1..MaxBuilders : distinct(this)
  \/ \E this \in 1..MaxBuilders : \E selector \in OrderArgs : orderBy(this, selector)
  \/ \E this \in 1..MaxBuilders : \E selector \in OrderArgs : orderByDescending(this, selector)
  \/ \E this \in 1..MaxBuilders : \E bag \in ScopeArgs : scope(this, bag)
  \/ \E this \in 1..MaxBuilders : toArray(this)
  \/ \E this \in 1..MaxBuilders : first(this)

Spec == Init /\ [][Next]_vars

(***************************************************************************)
(* The engine called directly: PostgresEngine.toArray is public and takes  *)
(* any IQueryableState.  Init draws the state from the bounded set         *)
(* EngineStates.                                                           *)
(***************************************************************************)
CoreOps ==
  {Op("include", 0, "courses", "", ""), Op("map", 0, FnMapId, "", "")}
  \cup {Op("filter", 0, f, "", "") : f \in {FnIdGt1, FnIdLt3, FnNoSuch}}
  \cup {Op("skip", n, "", "", "") : n \in 0..MaxN}
  \cup {Op("take", n, "", "", "") : n \in 0..MaxN}

ProbeOps ==
  {Op("filter", 0, f, "", "") : f \in FilterFns}
  \cup {Op("map", 0, f, "", "") : f \in MapFns}
  \cup {Op("order", 0, f, d, "") : f \in OrderFns, d \in {"asc", "desc"}}
  \cup {Op("includes", 0, "courses", "", ""), Op("distinct", 1, "", "", "")}

StateOf(ops, bag) == [entityType |-> "User", ops |-> ops, scope |-> bag]

\* the chains of the examples, with include in both spellings of its tag
ExampleChains ==
  {<<Op("include", 0, "courses", "", ""), Op("map", 0, FnMapCourses, "", "")>>,
   <<Op("includes", 0, "courses", "", ""), Op("map", 0, FnMapCourses, "", "")>>,
   <<Op("skip", 5, "", "", ""), Op("include", 0, "courses", "", ""),
     Op("map", 0, FnMapCourses, "", ""), Op("skip", 5, "", "", "")>>,
   <<Op("skip", 5, "", "", ""), Op("map", 0, FnMapId8, "", ""),
     Op("skip", 5, "", "", "")>>}

\* chains with several filters and orders, with callbacks over the aliases of an
\* earlier map, with an order in a later group, and with two includes
LayerChains ==
  {<<Op("map", 0, FnMapIdx, "", ""), Op("take", 2, "", "", ""),
     Op("map", 0, FnMapPick, "", "")>>,
   <<Op("map", 0, FnMapIdx, "", ""), Op("filter", 0, FnIdxGt1, "", ""),
     Op("order", 0, FieldSelector("username"), "desc", ""),
     Op("order", 0, FnSelIdx, "asc", "")>>,
   <<Op("skip", 5, "", "", ""), Op("map", 0, FnMapId, "", ""),
     Op("order", 0, FnSelId, "asc", "")>>,
   <<Op("filter", 0, FnIdGt1, "", ""), Op("order", 0, FnSelId, "desc", ""),
     Op("take", 2, "", "", ""), Op("filter", 0, FnIdLt3, "", ""),
     Op("order", 0, FieldSelector("username"), "asc", "")>>,
   <<Op("take", 2, "", "", ""), Op("map", 0, FnMapIdx, "", ""),
     Op("filter", 0, FnIdxGt1, "", ""), Op("distinct", 1, "", "", ""),
     Op("filter", 0, FnIdGt1, "", "")>>,
   <<Op("include", 0, "courses", "", ""), Op("include", 0, "courses", "", ""),
     Op("take", 2, "", "", ""), Op("map", 0, FnMapId, "", "")>>,
   <<Op("take", 2, "", "", ""), Op("include", 0, "courses", "", ""),
     Op("distinct", 1, "", "", ""), Op("include", 0, "courses", "", "")>>,
   <<Op("skip", 5, "", "", ""), Op("map", 0, FnMapIdx, "", ""),
     Op("take", 2, "", "", ""), Op("map", 0, FnMapPick, "", "")>>,
   <<Op("map", 0, FnMapIdx, "", ""), Op("map", 0, FnMapPick, "", "")>>}

\* a scope bag with a key that is also the name of a column of the root entity
ScopeRole == [role |-> Num(7)]

\* a filter over a column, alone and after a map that drops the column, with and
\* without that key in the scope bag
ShadowStates ==
  {StateOf(ops, bag) :
     ops \in {<<Op("filter", 0, FnRoleEqNull, "", "")>>,
              <<Op("map", 0, FnMapId, "", ""), Op("filter", 0, FnRoleEqNull, "", "")>>},
     bag \in {EmptyScope, ScopeRole}}

EngineStates ==
  {StateOf(ops, ScopeRich) : ops \in UNION {[1..n -> CoreOps] : n \in 0..MaxOps}}
  \cup {StateOf(<<op>>, bag) : op \in ProbeOps, bag \in {EmptyScope, ScopeRich}}
  \cup {StateOf(ops, EmptyScope) : ops \in ExampleChains \cup LayerChains}
  \cup ShadowStates

\* a caller hands q to PostgresEngine.toArray
EngineCall ==
  /\ last' = CallRecord("engine.toArray", 0, 0, EmptyScope, EngineToArray(q), <<>>)
  /\ UNCHANGED <<builders, q, calls, pool, schema>>

InitEngine ==
  /\ builders = <<FreshDbSet>>
  /\ q \in EngineStates
  /\ last = CallRecord("none", 0, 0, EmptyScope, NoOutcome, <<>>)
  /\ calls = NoCalls
  /\ pool = {}
  /\ schema = NoSchema

NextEngine == EngineCall

SpecEngine == InitEngine /\ [][NextEngine]_vars

(***************************************************************************)
(* Specification SpecPool: concurrent PostgresEngine.toArray calls on one  *)
(* engine, step by step.  A call runs from its start to its first await    *)
(* (pool.connect()), from there to its second (client.query()), and from   *)
(* there to its end; the steps of different calls interleave.              *)
(***************************************************************************)
\* the states handed to the calls: one that compiles and runs, one the database
\* rejects, two whose compilation throws
PoolStates ==
  {StateOf(<<Op("filter", 0, f, "", "")>>, EmptyScope) :
     f \in {FnIdGt1, FnNoSuch, FnIdStrictEq, FnCharAt}}

\* a faulty variant of AfterCompile: compileSelect is called after the connection
\* was asked for, so its exception does not stop the call here
AfterCompileLate(call, state, compiled) ==
  [call EXCEPT !.pc = "connecting", !.state = state, !.threw = compiled.threw]

\* the call once compileSelect has returned or thrown: an exception rejects the
\* promise there and then; otherwise the call awaits pool.connect()
AfterCompile(call, state, compiled) ==
  IF compiled.threw
  THEN [call EXCEPT !.pc = "done", !.state = state, !.threw = TRUE,
                    !.settled = "rejected"]
  ELSE [call EXCEPT !.pc = "connecting", !.state = state]

\* a faulty variant of AfterQuery: client.release() only after a query that
\* succeeded, with no finally
AfterQueryNoFinally(call, answer) ==
  [call EXCEPT !.pc = "done",
               !.released = IF answer.threw THEN @ ELSE @ + 1,
               !.settled = IF answer.threw THEN "rejected" ELSE "resolved"]

\* the call once client.query has settled: try { return rows } finally
\* { client.release() }
AfterQuery(call, answer) ==
  [call EXCEPT !.pc = "done", !.released = @ + 1,
               !.settled = IF answer.threw THEN "rejected" ELSE "resolved"]

\* the calls that hold a connection
Holders(cs) == {c \in DOMAIN cs : cs[c].acquired > cs[c].released}

\* engine.toArray(state) is called: the code up to `await pool.connect()`
PoolCall(c, state) ==
  /\ calls[c].pc = "idle"
  /\ calls' = [calls EXCEPT
                 ![c] = AfterCompile(@, state,
                          compileSelect(state.entityType, state.ops, state.scope))]
  /\ pool' = Holders(calls')
  /\ UNCHANGED <<builders, q, last, schema>>

\* pool.connect() resolves with a client; the code runs on to
\* `await client.query(compiled.sql)`
PoolConnect(c) ==
  /\ calls[c].pc = "connecting"
  /\ Cardinality(pool) < PoolSize
  /\ calls' = [calls EXCEPT ![c].pc = "querying", ![c].acquired = @ + 1,
                            ![c].executed = @ + 1]
  /\ pool' = Holders(calls')
  /\ UNCHANGED <<builders, q, last, schema>>

\* pool.connect() rejects: the exception leaves toArray before the try block
PoolConnectFails(c) ==
  /\ calls[c].pc = "connecting"
  /\ calls' = [calls EXCEPT ![c].pc = "done", ![c].settled = "rejected"]
  /\ pool' = Holders(calls')
  /\ UNCHANGED <<builders, q, last, schema>>

\* client.query settles: the rest of the try block and the finally block
PoolQueryDone(c) ==
  /\ calls[c].pc = "querying"
  /\ calls' = [calls EXCEPT
                 ![c] = AfterQuery(@, Query(compileSelect(calls[c].state.entityType,
                                                          calls[c].state.ops,
                                                          calls[c].state.scope)))]
  /\ pool' = Holders(calls')
  /\ UNCHANGED <<builders, q, last, schema>>

NextPool ==
  \/ \E c \in 1..MaxCalls : \E state \in PoolStates : PoolCall(c, state)
  \/ \E c \in 1..MaxCalls : PoolConnect(c)
  \/ \E c \in 1..MaxCalls : PoolConnectFails(c)
  \/ \E c \in 1..MaxCalls : PoolQueryDone(c)

SpecPool == Init /\ [][NextPool]_vars

(***************************************************************************)
(* Specification SpecFirst: a caller hands the snapshot of a builder to    *)
(* PostgresEngine.first, which is public like toArray.  getState() puts    *)
(* the builder's own array in the snapshot (ops: this.ops), so what first  *)
(* pushes on q.ops is pushed on the array of the builder.  Init draws the  *)
(* builder from the chains of at most two operations.                      *)
(***************************************************************************)
FirstChains == UNION {[1..n -> CoreOps] : n \in 0..2}

\* q.ops.push({ type: 'take', data: 1 }) on an array of at most MaxOps + MaxCalls
\* records
PushTakeOne(ops) == Append(ops, Op("take", 1, "", "", ""))

\* PostgresEngine.first(q) for q = builders[this].getState(): the push, then
\* toArray(q) and arr[0]
engineFirst(this) ==
  /\ this \in 1..Len(builders)
  /\ Len(builders[this].ops) < MaxOps + MaxCalls
  /\ builders' = [builders EXCEPT ![this].ops = PushTakeOne(@)]
  /\ last' = CallRecord("engine.first", this, 0, EmptyScope,
                        EngineToArray(getState(builders'[this])),
                        ElementZero(EngineToArray(getState(builders'[this])).rows))
  /\ UNCHANGED <<q, calls, pool, schema>>

InitFirst ==
  /\ builders \in {<<[ops |-> ops, scope |-> EmptyScope]>> : ops \in FirstChains}
  /\ q = getState(FreshDbSet)
  /\ last = CallRecord("none", 0, 0, EmptyScope, NoOutcome, <<>>)
  /\ calls = NoCalls
  /\ pool = {}
  /\ schema = NoSchema

NextFirst ==
  \/ \E this \in 1..MaxBuilders : engineFirst(this)
  \/ \E this \in 1..MaxBuilders : toArray(this)

SpecFirst == InitFirst /\ [][NextFirst]_vars

(***************************************************************************)
(* Specification SpecSchema: the entity classes are declared one after the *)
(* other, each with the member decorators of its body.                     *)
(***************************************************************************)
\* the property names and column names the entity classes of the model declare
PropertyKeys == {"id", "title"}
ColumnNames == {"", "col"}
RelationKeys == {"items"}

\* `class <class> ...` is entered: its member decorators run next.  A class
\* is declared after the class it extends.
ClassBegins(class) ==
  /\ schema.open = ""
  /\ class \notin schema.declared
  /\ ParentOf(class) = "" \/ ParentOf(class) \in schema.declared
  /\ schema' = [schema EXCEPT !.open = class]
  /\ UNCHANGED <<builders, q, last, calls, pool>>

\* @Column({ name }) on the property propertyKey of the class being declared
Column(propertyKey, name) ==
  /\ schema.open # ""
  /\ schema' = StoreEntry(schema, "COLUMN_METADATA_KEY", schema.open,
                          Descriptor(propertyKey,
                                     IF name # "" THEN name ELSE propertyKey, ""),
                          ReflectGetMetadata(schema, "COLUMN_METADATA_KEY", schema.open))
  /\ UNCHANGED <<builders, q, last, calls, pool>>

\* @HasMany(() => target) on the property propertyKey of the class being declared
HasMany(propertyKey, target) ==
  /\ schema.open # ""
  /\ schema' = StoreEntry(schema, "RELATION_METADATA_KEY", schema.open,
                          Descriptor(propertyKey, "", target),
                          ReflectGetMetadata(schema, "RELATION_METADATA_KEY", schema.open))
  /\ UNCHANGED <<builders, q, last, calls, pool>>

\* the class body ends: the class exists
ClassEnds ==
  /\ schema.open # ""
  /\ schema' = [schema EXCEPT !.open = "", !.declared = @ \cup {schema.open}]
  /\ UNCHANGED <<builders, q, last, calls, pool>>

NextSchema ==
  \/ \E class \in Classes : ClassBegins(class)
  \/ \E propertyKey \in PropertyKeys : \E name \in ColumnNames : Column(propertyKey, name)
  \/ \E propertyKey \in RelationKeys : \E target \in Classes : HasMany(propertyKey, target)
  \/ ClassEnds

SpecSchema == Init /\ [][NextSchema]_vars

(***************************************************************************)
(* Properties.                                                             *)
(***************************************************************************)
Range(seq) == {seq[i] : i \in 1..Len(seq)}

TakeOne == Op("take", 1, "", "", "")

\* C1: a chain call b.m(x), m one of include, filter, skip, take, map, distinct,
\* orderBy, orderByDescending, returns a new builder whose operation list is
\* b's list followed by exactly one new record; every builder that existed,
\* b included, has the same getState().ops after the call as before it.
C1_ChainCallAppendsOneRecord ==
  [][last'.kind \in ChainMethods =>
       /\ Len(builders') = Len(builders) + 1
       /\ last'.ret = Len(builders')
       /\ \A i \in 1..Len(builders) : getState(builders'[i]).ops = getState(builders[i]).ops
       /\ Len(builders'[last'.ret].ops) = Len(builders[last'.this].ops) + 1
       /\ SubSeq(builders'[last'.ret].ops, 1, Len(builders[last'.this].ops))
            = builders[last'.this].ops]_vars

\* C1 witness: a chain call on a builder that itself came from a chain call
C1_Witness ==
  /\ last.kind \in ChainMethods
  /\ last.this = 2
  /\ Len(builders[2].ops) = 1
  /\ Len(builders[last.ret].ops) = 2

\* C4: b.first() hands the engine b's operation list with one take-1 record
\* appended, resolves to element 0 of what b.take(1).toArray() resolves to
\* (undefined when that array is empty), and leaves b as it was.
C4_FirstIsTakeOneToArray ==
  last.kind = "first" =>
    /\ last.outcome.state.ops = Append(builders[last.this].ops, TakeOne)
    /\ last.outcome = EngineToArray(getState(Clone(withOp(builders, last.this, TakeOne))))
    /\ last.value = ElementZero(last.outcome.rows)

\* C4 witness: first() on a builder with operations, resolving to a row
C4_Witness ==
  /\ last.kind = "first"
  /\ Len(builders[last.this].ops) = 2
  /\ ~last.outcome.rejected
  /\ last.value = <<2>>

\* C4 witness of the empty case is C4_WitnessUndefined: first() on a query with no row
C4_WitnessUndefined ==
  /\ last.kind = "first"
  /\ ~last.outcome.rejected
  /\ last.outcome.rows = <<>>
  /\ last.value = <<>>

Unwrapped(ops) ==
  [i \in 1..Len(ops) |->
     IF ops[i].type = "order" /\ ops[i].captured # ""
     THEN Op("order", 0, FieldSelector(ops[i].captured), ops[i].direction, "")
     ELSE ops[i]]

HasType(ops, types) == \E i \in 1..Len(ops) : ops[i].type \in types

\* C7: for a declared field f of the current projection, orderBy("f") and
\* orderByDescending("f") compile to the ORDER BY entry that the selector
\* x => x.f compiles to.
C7_OrderByFieldNameAsSelector ==
  (/\ last.kind = "toArray"
   /\ ~HasType(builders[last.this].ops, {"map"})
   /\ \E i \in 1..Len(builders[last.this].ops) :
        /\ builders[last.this].ops[i].type = "order"
        /\ builders[last.this].ops[i].captured \in FieldNames)
  => ClauseOf(last.outcome.compiled.parts, "ORDER BY")
       = ClauseOf(compileSelect("User", Unwrapped(builders[last.this].ops),
                                builders[last.this].scope).parts, "ORDER BY")

\* C8: the statement compiled for builder.include(r).toArray(), r a relation of
\* the root entity, has a JOIN to r's target table and one column "r.<field>"
\* for each column of the target entity.
C8_IncludeJoinsAndWidens ==
  (/\ last.kind = "toArray"
   /\ ~HasType(builders[last.this].ops, {"map"})
   /\ \E i \in 1..Len(builders[last.this].ops) :
        /\ builders[last.this].ops[i].type \in {"include", "includes"}
        /\ builders[last.this].ops[i].str = "courses")
  => /\ ~last.outcome.compiled.threw
     /\ \E i \in 1..Len(last.outcome.compiled.parts) :
          /\ last.outcome.compiled.parts[i].kw = "JOINS"
          /\ last.outcome.compiled.parts[i].text # ""
     /\ \A j \in 1..Len(ColumnsMetadata("Course")) :
          ("courses." \o ColumnsMetadata("Course")[j].fieldName)
            \in Range(last.outcome.compiled.columns)

(***************************************************************************)
(* Properties of the engine called directly (SpecEngine).                  *)
(***************************************************************************)
\* what the callback does to a row when JavaScript runs it
JsHolds(fn, row) == IF fn = FnIdGt1 THEN row > 1 ELSE row < 3

RECURSIVE ApplyInOrder(_, _, _)
\* the operations applied one at a time, in call order, to the row sequence
ApplyInOrder(rows, ops, i) ==
  IF i > Len(ops) THEN rows
  ELSE ApplyInOrder(
         CASE ops[i].type = "filter" ->
                SelectSeq(rows, LAMBDA row : JsHolds(ops[i].str, row))
           [] ops[i].type = "skip" -> DropRows(rows, ops[i].num)
           [] OTHER -> FirstRows(rows, ops[i].num),
         ops, i + 1)

FilterSkipTakeOnly(ops) ==
  /\ ops # <<>>
  /\ \A i \in 1..Len(ops) :
       \/ ops[i].type \in {"skip", "take"} /\ ops[i].num >= 0
       \/ ops[i].type = "filter" /\ ops[i].str \in {FnIdGt1, FnIdLt3}

\* C2: for a chain of filter, skip and take calls only, the rows the compiled
\* statement selects are the rows obtained by applying the operations one at a
\* time, in the order they were called.
\* (stated for positive payloads: the payload 0 is the subject of C3)
C2_InsertionOrderSemantics ==
  (/\ last.kind = "engine.toArray"
   /\ FilterSkipTakeOnly(last.outcome.state.ops)
   /\ \A i \in 1..Len(last.outcome.state.ops) :
        last.outcome.state.ops[i].type \in {"skip", "take"}
          => last.outcome.state.ops[i].num >= 1)
  => /\ ~last.outcome.rejected
     /\ last.outcome.rows = ApplyInOrder(UsersRows, last.outcome.state.ops, 1)

\* the payload of the last record of the given type
LastOfType(ops, type) ==
  ops[CHOOSE i \in 1..Len(ops) :
        /\ ops[i].type = type
        /\ \A j \in (i + 1)..Len(ops) : ops[j].type # type].num

\* C3: take(n) sets LIMIT n and skip(n) sets OFFSET n in the SELECT of its group,
\* for every n >= 0; a chain ending in take(0) compiles to LIMIT 0 and returns
\* no rows.  (OFFSET 0 and no OFFSET select the same rows: skip(0) is accepted
\* either way, so that a violation is one that changes the rows selected.)
C3_TakeSetsLimitSkipSetsOffset ==
  (last.kind = "engine.toArray" /\ FilterSkipTakeOnly(last.outcome.state.ops))
  => /\ HasType(last.outcome.state.ops, {"take"}) =>
          /\ \E i \in 1..Len(last.outcome.compiled.parts) :
               /\ last.outcome.compiled.parts[i].kw = "LIMIT"
               /\ last.outcome.compiled.parts[i].num
                    = LastOfType(last.outcome.state.ops, "take")
          /\ Len(last.outcome.rows) <= LastOfType(last.outcome.state.ops, "take")
     /\ HasType(last.outcome.state.ops, {"skip"}) =>
          \/ \E i \in 1..Len(last.outcome.compiled.parts) :
               /\ last.outcome.compiled.parts[i].kw = "OFFSET"
               /\ last.outcome.compiled.parts[i].num
                    = LastOfType(last.outcome.state.ops, "skip")
          \/ /\ LastOfType(last.outcome.state.ops, "skip") = 0
             /\ ClauseOf(last.outcome.compiled.parts, "OFFSET") = <<>>

\* the SQL literal of a primitive value: a string single-quoted with every
\* embedded quote doubled, a number as decimal, TRUE / FALSE, NULL
SqlLiteral(v) ==
  CASE v.t = "string" ->
         "'" \o JoinStr([i \in 1..Len(v.s) |-> IF v.s[i] = "'" THEN "''" ELSE v.s[i]], "")
             \o "'"
    [] v.t = "number" -> ToString(v.n)
    [] v.t = "boolean" -> IF v.n = 1 THEN "TRUE" ELSE "FALSE"
    [] OTHER -> "NULL"

\* the filters of the model that compare a column with a scope path:
\* the SQL of the column and the scope path
ScopeFilters ==
  [f \in {FnIdGtFoo, FnNameEq, FnFlagEq, FnIdGtBarNum} |->
     CASE f = FnIdGtFoo -> [lhs |-> RootId \o " > ", path |-> "foo"]
       [] f = FnNameEq ->
            [lhs |-> Quoted(uniqueAlias(0)) \o "." \o Quoted("username") \o " = ",
             path |-> "name"]
       [] f = FnFlagEq ->
            [lhs |-> Quoted(uniqueAlias(0)) \o "." \o Quoted("role") \o " = ",
             path |-> "flag"]
       [] OTHER -> [lhs |-> RootId \o " > ", path |-> "bar.num"]]

\* C6: a dot-path that is no projection alias and is found in the scope bag is
\* inlined as a SQL literal: a string single-quoted with embedded quotes
\* escaped, a number as decimal, a boolean as TRUE / FALSE.
C6_ScopeValueInlinedAsLiteral ==
  (/\ last.kind = "engine.toArray"
   /\ Len(last.outcome.state.ops) = 1
   /\ last.outcome.state.ops[1].type = "filter"
   /\ last.outcome.state.ops[1].str \in DOMAIN ScopeFilters
   /\ LodashGet(last.outcome.state.scope,
                ScopeFilters[last.outcome.state.ops[1].str].path) # Undefined)
  => /\ ~last.outcome.compiled.threw
     /\ ClauseOf(last.outcome.compiled.parts, "WHERE")[1].list
          = <<ScopeFilters[last.outcome.state.ops[1].str].lhs \o
              SqlLiteral(LodashGet(last.outcome.state.scope,
                                   ScopeFilters[last.outcome.state.ops[1].str].path))>>

\* C9: an include that comes after a map (in the first group, or anywhere in a
\* later group) is rejected with an error: it is not dropped, and adds no JOIN.
C9_IncludeAfterMapRejected ==
  (/\ last.kind = "engine.toArray"
   /\ \E i \in 1..Len(last.outcome.state.ops) :
        /\ last.outcome.state.ops[i].type \in {"include", "includes"}
        /\ \E j \in 1..(i - 1) : last.outcome.state.ops[j].type = "map")
  => last.outcome.compiled.threw

\* the callbacks of the model whose path is never an alias nor a scope path
UnresolvedFns == {FnNoSuch, FnMapNoSuch, FnSelNoSuch}

\* C10: a filter, map or order callback with a path that is neither a projection
\* alias nor a scope path makes compilation fail; no SQL text is produced.
C10_UnresolvedPathFails ==
  (/\ last.kind = "engine.toArray"
   /\ \E i \in 1..Len(last.outcome.state.ops) :
        last.outcome.state.ops[i].str \in UnresolvedFns)
  => /\ last.outcome.compiled.threw
     /\ last.outcome.compiled.sql = ""

\* the operations of the engine call all carry one of the callbacks fns
SoleCallback(fns) ==
  /\ last.kind = "engine.toArray"
  /\ Len(last.outcome.state.ops) = 1
  /\ last.outcome.state.ops[1].str \in fns

\* the callbacks of the model that call a method outside the method table
UnknownCallFns == {FnCharAt, FnBareCall, FnMapPad, FnSelCharAt}

UnsupportedNodeFns == {FnNot, FnInArray, FnMapCond, FnSelNeg}

\* C12: an AST node kind the translator does not support (unary, conditional,
\* array expression) makes translation fail with an error instead of emitting
\* a SQL string.
C12_UnsupportedNodeFails ==
  SoleCallback(UnsupportedNodeFns) => last.outcome.compiled.threw

\* C13: an equality / inequality with the literal null is translated to
\* IS NULL / IS NOT NULL, never to `= null` or `<> null`.
C13_NullComparisonIsNull ==
  /\ SoleCallback({FnRoleEqNull}) =>
       /\ ~last.outcome.compiled.threw
       /\ ClauseOf(last.outcome.compiled.parts, "WHERE")[1].list
            = <<Quoted(uniqueAlias(0)) \o "." \o Quoted("role") \o " IS NULL">>
  /\ SoleCallback({FnRoleNeNull}) =>
       /\ ~last.outcome.compiled.threw
       /\ ClauseOf(last.outcome.compiled.parts, "WHERE")[1].list
            = <<Quoted(uniqueAlias(0)) \o "." \o Quoted("role") \o " IS NOT NULL">>

\* the loose twin of a callback written with a strict operator
LooseTwin(fn) == IF fn = FnIdStrictEq THEN FnIdEq ELSE FnIdNe

\* C14: the strict operators translate like the loose ones: L === R compiles to
\* what L == R compiles to, and L !== R to what L != R compiles to.
C14_StrictLikeLoose ==
  SoleCallback({FnIdStrictEq, FnIdStrictNe})
  => last.outcome.compiled
       = compileSelect("User",
           <<Op("filter", 0, LooseTwin(last.outcome.state.ops[1].str), "", "")>>,
           last.outcome.state.scope)

\* C15: for a projection with a nested object literal, parseProjection returns
\* one entry per leaf, the keys joined by dots: map(u => ({a: {b: u.id}})) yields
\* the alias "a.b", whose target is the SQL of u.id.
C15_NestedObjectFlattens ==
  SoleCallback({FnMapNested})
  => /\ ~last.outcome.compiled.threw
     /\ last.outcome.compiled.columns = <<"a.b">>
     /\ ClauseOf(last.outcome.compiled.parts, "PROJECTION")[1].text
          = RootId \o " AS " \o Quoted("a.b")

\* the engine was called with exactly the operations ops
CalledWith(ops) == last.kind = "engine.toArray" /\ last.outcome.state.ops = ops

RECURSIVE At(_, _)
\* the node of object obj at the nested path, NoValue's leaf when there is none
At(obj, path) ==
  IF path[1] \notin DOMAIN obj THEN LeafNode(NoValue)
  ELSE IF Len(path) = 1 THEN obj[path[1]]
  ELSE IF obj[path[1]].leaf THEN LeafNode(NoValue)
  ELSE At(obj[path[1]].kids, Tail(path))

RECURSIVE Keys(_)
\* the keys of an object and of the objects nested in it
Keys(obj) ==
  DOMAIN obj \cup UNION {IF obj[k].leaf THEN {} ELSE Keys(obj[k].kids) : k \in DOMAIN obj}

DottedAliases == {JoinStr(p, ".") : p \in DotPaths}

\* C17: for every row the backend returned, the rehydrated object holds each
\* column's value at the nested path obtained by splitting the column's alias
\* on '.', and has no key containing '.'; a row none of whose aliases contains
\* '.' is returned unchanged.
C17_RehydrationRoundTrip ==
  (last.kind = "engine.toArray" /\ ~last.outcome.rejected)
  => /\ Len(last.outcome.objects) = Len(last.outcome.rows)
     /\ \A i \in 1..Len(last.outcome.rows) :
          /\ \A a \in Range(last.outcome.compiled.columns) :
               At(last.outcome.objects[i], KeyPath(a))
                 = LeafNode(ColumnValue(a, last.outcome.rows[i]))
          /\ Keys(last.outcome.objects[i]) \cap DottedAliases = {}
          /\ Range(last.outcome.compiled.columns) \cap DottedAliases = {}
               => last.outcome.objects[i]
                    = FlatRow(last.outcome.compiled.columns, last.outcome.rows[i])

\* C17 witness: a row with dotted aliases came back and was rehydrated
C17_Witness ==
  /\ last.kind = "engine.toArray"
  /\ ~last.outcome.rejected
  /\ last.outcome.rows # <<>>
  /\ "courses.id" \in Range(last.outcome.compiled.columns)
  /\ ~last.outcome.objects[1]["courses"].leaf

(***************************************************************************)
(* Properties of concurrent calls (SpecPool).                              *)
(***************************************************************************)
\* C18: under any interleaving of concurrent toArray calls, each connection
\* acquired from the pool is released exactly once, whether the statement
\* succeeds or fails; when acquisition fails no release is attempted; once all
\* calls have finished no connection remains checked out.
C18_ConnectionReleasedOnce ==
  /\ \A c \in 1..MaxCalls :
       /\ calls[c].released <= calls[c].acquired
       /\ calls[c].acquired <= 1
       /\ calls[c].pc = "done" => calls[c].released = calls[c].acquired
       /\ calls[c].pc = "querying" => calls[c].acquired = 1 /\ calls[c].released = 0
       /\ calls[c].pc \in {"idle", "connecting"} => calls[c].acquired = 0
  /\ pool = {c \in 1..MaxCalls : calls[c].pc = "querying"}
  /\ Cardinality(pool) <= PoolSize
  /\ (\A c \in 1..MaxCalls : calls[c].pc \in {"idle", "done"}) => pool = {}

\* C18 witness: both calls have finished, one after a statement that succeeded
\* and one after a statement the database rejected, each having held a connection
C18_Witness ==
  /\ calls[1].pc = "done" /\ calls[1].settled = "resolved" /\ calls[1].released = 1
  /\ calls[2].pc = "done" /\ calls[2].settled = "rejected" /\ calls[2].released = 1
  /\ ~calls[2].threw

\* C18 witness of the failed acquisition: a call that compiled, never got a
\* connection and has finished
C18_WitnessNoConnection ==
  /\ calls[1].pc = "done" /\ ~calls[1].threw /\ calls[1].acquired = 0
  /\ calls[1].settled = "rejected"

\* C19: when compilation of a terminal call fails, the error reaches the caller
\* before any database interaction: the call is rejected, it has acquired no
\* connection and executed no statement.
C19_CompileErrorBeforeDatabase ==
  \A c \in 1..MaxCalls :
    (calls[c].pc # "idle"
     /\ compileSelect(calls[c].state.entityType, calls[c].state.ops,
                      calls[c].state.scope).threw)
    => /\ calls[c].pc = "done"
       /\ calls[c].settled = "rejected"
       /\ calls[c].acquired = 0
       /\ calls[c].executed = 0

\* C19 witness: a call whose compilation threw has been rejected while another
\* call holds the connection
C19_Witness ==
  /\ calls[1].pc = "querying"
  /\ calls[2].pc = "done" /\ calls[2].threw /\ calls[2].settled = "rejected"
  /\ calls[2].acquired = 0

(***************************************************************************)
(* Properties of the layered statement (SpecEngine).                       *)
(***************************************************************************)
\* the SELECTs of a compiled statement, innermost first
SelectsOf(compiled) == compiled.inner \o <<compiled.parts>>

\* the FROM clause of the i-th SELECT of selects when it reads under alias
FromClauseAs(selects, i, alias) ==
  IF i = 1 THEN "FROM " \o Quoted(TableName("User")) \o " AS " \o Quoted(alias)
  ELSE "FROM (" \o SqlOf(selects[i - 1]) \o ") AS " \o Quoted(alias)

SkipMapSkip ==
  <<Op("skip", 5, "", "", ""), Op("map", 0, FnMapId8, "", ""), Op("skip", 5, "", "", "")>>

\* C20: for users.skip(5).map(u => ({id: u.id*8})).skip(5) the outer SELECT reads
\* from a sub-query aliased ___t1 and projects ("___t1"."id" * 8) AS "id"; the
\* sub-query has the first OFFSET 5 and the outer query the second.  In general
\* the i-th SELECT of a compilation, counted from 0, uses the FROM alias ___t<i>.
C20_SubqueryAliases ==
  /\ CalledWith(SkipMapSkip) =>
       /\ ~last.outcome.compiled.threw
       /\ Len(SelectsOf(last.outcome.compiled)) = 2
       /\ ClauseOf(last.outcome.compiled.parts, "PROJECTION")[1].text
            = "(" \o Quoted("___t1") \o "." \o Quoted("id") \o " * 8) AS " \o Quoted("id")
       /\ ClauseOf(last.outcome.compiled.inner[1], "OFFSET")[1].num = 5
       /\ ClauseOf(last.outcome.compiled.parts, "OFFSET")[1].num = 5
  /\ (last.kind = "engine.toArray" /\ ~last.outcome.compiled.threw) =>
       \A i \in 1..Len(SelectsOf(last.outcome.compiled)) :
         ClauseOf(SelectsOf(last.outcome.compiled)[i], "FROM")[1].text
           = FromClauseAs(SelectsOf(last.outcome.compiled), i, uniqueAlias(i - 1))

(***************************************************************************)
(* Properties of the layering (SpecEngine).                                *)
(***************************************************************************)
RECURSIVE Concat(_)
\* the groups laid end to end
Concat(groups) ==
  IF groups = <<>> THEN <<>> ELSE Head(groups) \o Concat(Tail(groups))

\* the position in the operation list at which group number g starts
GroupStart(groups, g) == 1 + Len(Concat(SubSeq(groups, 1, g - 1)))

\* the positions at which a map follows a skip or a take
Boundaries(ops) ==
  {i \in 2..Len(ops) : ops[i].type = "map" /\ ops[i - 1].type \in {"skip", "take"}}

\* C21: for every non-empty operation list splitOps returns non-empty groups whose
\* concatenation is the list in its original order; a new group starts at position
\* i exactly when ops[i] is a map and ops[i-1] is a skip or a take, and the number
\* of groups is one more than the number of such positions (a compilation that
\* succeeds has one SELECT per group).
C21_SplitOpsPartitions ==
  (last.kind = "engine.toArray" /\ last.outcome.state.ops # <<>>) =>
    /\ \A g \in 1..Len(splitOps(last.outcome.state.ops)) :
         splitOps(last.outcome.state.ops)[g] # <<>>
    /\ Concat(splitOps(last.outcome.state.ops)) = last.outcome.state.ops
    /\ {GroupStart(splitOps(last.outcome.state.ops), g) :
          g \in 2..Len(splitOps(last.outcome.state.ops))}
         = Boundaries(last.outcome.state.ops)
    /\ Len(splitOps(last.outcome.state.ops))
         = 1 + Cardinality(Boundaries(last.outcome.state.ops))
    /\ ~last.outcome.compiled.threw =>
         Len(SelectsOf(last.outcome.compiled))
           = 1 + Cardinality(Boundaries(last.outcome.state.ops))

\* a list with a skip-map boundary and a map that is not one was split in two
C21_Witness ==
  /\ last.kind = "engine.toArray"
  /\ ~last.outcome.compiled.threw
  /\ Len(last.outcome.state.ops) = 3
  /\ last.outcome.state.ops[1].type = "map"
  /\ Boundaries(last.outcome.state.ops) = {3}
  /\ Len(SelectsOf(last.outcome.compiled)) = 2

\* the operations of the groups before group number g
Before(groups, g) == Concat(SubSeq(groups, 1, g - 1))

\* what a seed that exposes exactly `columns` under `alias` resolves a path to
SeedTarget(columns, alias, path) ==
  IF path \in Range(columns) THEN Quoted(alias) \o "." \o Quoted(path)
  ELSE "[Unknown target]"

\* the projection a map reading that seed produces
SeedProjection(fn, columns, alias) ==
  CASE fn = FnMapId -> SeedTarget(columns, alias, "id") \o " AS " \o Quoted("id")
    [] fn = FnMapId8 ->
         "(" \o SeedTarget(columns, alias, "id") \o " * 8) AS " \o Quoted("id")
    [] fn = FnMapIdx ->
         SeedTarget(columns, alias, "id") \o " AS " \o Quoted("id") \o ",("
           \o SeedTarget(columns, alias, "id") \o " * 8) AS " \o Quoted("idx")
    [] fn = FnMapPick ->
         SeedTarget(columns, alias, "idx") \o " AS " \o Quoted("n") \o ","
           \o SeedTarget(columns, alias, "fullName") \o " AS " \o Quoted("f")

SeedReaders == {FnMapId, FnMapId8, FnMapIdx, FnMapPick}

\* the group has one map, its first operation, and that map reads the seed
ReadsSeed(group) ==
  /\ group[1].str \in SeedReaders
  /\ \A i \in 2..Len(group) : group[i].type # "map"

\* group number g of the call on `state` that compiled to `selects`, given what the
\* groups before it compile to on their own
WrapsInner(selects, groups, g, innerCompiled) ==
  /\ ClauseOf(selects[g], "FROM")[1].text
       = "FROM (" \o innerCompiled.sql \o ") AS " \o Quoted(uniqueAlias(2 * (g - 1)))
  /\ innerCompiled.sql = SqlOf(selects[g - 1])
  /\ ReadsSeed(groups[g]) =>
       ClauseOf(selects[g], "PROJECTION")[1].text
         = SeedProjection(groups[g][1].str, innerCompiled.columns,
                          uniqueAlias(2 * (g - 1)))

\* C22: for an operation sequence with a skip or take immediately followed by a
\* map, every group after the first compiles to a SELECT whose FROM source is
\* exactly the parenthesized SQL of all the groups before it, and whose seed
\* projection exposes exactly the output columns of the previous group as
\* <alias>."<col>": a map reading the seed gets that target for a column of the
\* previous group and no target for any other path.
C22_LaterGroupWrapsPrevious ==
  (last.kind = "engine.toArray" /\ ~last.outcome.compiled.threw) =>
    \A g \in 2..Len(splitOps(last.outcome.state.ops)) :
      WrapsInner(SelectsOf(last.outcome.compiled), splitOps(last.outcome.state.ops), g,
                 compileSelect(last.outcome.state.entityType,
                               Before(splitOps(last.outcome.state.ops), g),
                               last.outcome.state.scope))

\* a compilation with three groups whose last map reads one column of the previous
\* group and one that the previous group does not have
C22_Witness ==
  /\ last.kind = "engine.toArray"
  /\ ~last.outcome.compiled.threw
  /\ Len(splitOps(last.outcome.state.ops)) = 3
  /\ last.outcome.state.ops[4].str = FnMapPick
  /\ ClauseOf(last.outcome.compiled.parts, "PROJECTION")[1].text
       = Quoted("___t4") \o "." \o Quoted("idx") \o " AS " \o Quoted("n")
           \o ",[Unknown target] AS " \o Quoted("f")

(***************************************************************************)
(* Properties of the aliases (SpecEngine).                                 *)
(***************************************************************************)
RECURSIVE AliasesIn(_, _)
\* the table, join and sub-query aliases the SELECTs from number g on declare: the
\* alias of each FROM and of each JOIN (compileSelectSubquery pushes its JOINs
\* twice; they are counted once)
AliasesIn(selects, g) ==
  IF g > Len(selects) THEN <<>>
  ELSE ClauseOf(selects[g], "FROM")[1].list \o ClauseOf(selects[g], "JOINS")[1].list
         \o AliasesIn(selects, g + 1)

\* C23: within a single compilation, for every operation list (including several
\* include operations followed by later sub-query groups), no two table, join or
\* sub-query aliases are equal.
C23_AliasesAreFresh ==
  (last.kind = "engine.toArray" /\ ~last.outcome.compiled.threw) =>
    \A i, j \in 1..Len(AliasesIn(SelectsOf(last.outcome.compiled), 1)) :
      i # j => AliasesIn(SelectsOf(last.outcome.compiled), 1)[i]
                 # AliasesIn(SelectsOf(last.outcome.compiled), 1)[j]

(***************************************************************************)
(* Properties of the clauses of a group (SpecEngine).                      *)
(***************************************************************************)
OfType(ops, type) == SelectSeq(ops, LAMBDA op : op.type = type)

\* the targets a path can resolve to: the column under the alias of some SELECT,
\* the product a map gave that name to, or none
ColumnTargets(path) ==
  {Quoted(uniqueAlias(n)) \o "." \o Quoted(path) : n \in 0..(2 * (MaxOps + 2))}

Targets(path) ==
  ColumnTargets(path) \cup {"(" \o t \o " * 8)" : t \in ColumnTargets("id")}
    \cup {"[Unknown target]"}

\* the conjuncts a filter callback can translate to
Conjuncts(fn) ==
  CASE fn = FnIdGt1 -> {t \o " > 1" : t \in Targets("id")}
    [] fn = FnIdLt3 -> {t \o " < 3" : t \in Targets("id")}
    [] fn = FnIdxGt1 -> {t \o " > 1" : t \in Targets("idx")}
    [] fn = FnNoSuch -> {"[Unknown target] > 1"}
    [] OTHER -> {}

\* the ORDER BY entries an order record can translate to
OrderEntries(op) ==
  CASE op.str = FnSelId -> {t \o " " \o op.direction : t \in Targets("id")}
    [] op.str = FnSelIdx -> {t \o " " \o op.direction : t \in Targets("idx")}
    [] op.str = FieldSelector("username") ->
         {t \o " " \o op.direction : t \in Targets("username")}
    [] OTHER -> {}

\* every filter and order of ops is one whose translations are listed above
Listed(ops) ==
  \A i \in 1..Len(ops) :
    /\ ops[i].type = "filter" => Conjuncts(ops[i].str) # {}
    /\ ops[i].type = "order" => OrderEntries(ops[i]) # {}

\* the WHERE clause of the SELECT `parts` has the conjuncts of `filters`, in order
WhereInCallOrder(parts, filters) ==
  IF filters = <<>> THEN ClauseOf(parts, "WHERE") = <<>>
  ELSE /\ Len(ClauseOf(parts, "WHERE")) = 1
       /\ Len(ClauseOf(parts, "WHERE")[1].list) = Len(filters)
       /\ \A k \in 1..Len(filters) :
            ClauseOf(parts, "WHERE")[1].list[k] \in Conjuncts(filters[k].str)
       /\ ClauseOf(parts, "WHERE")[1].text
            = "WHERE " \o JoinStr([k \in 1..Len(filters) |->
                                     "(" \o ClauseOf(parts, "WHERE")[1].list[k] \o ")"],
                                  " AND ")

\* the ORDER BY clause of the SELECT `parts` has the entries of `orders`, in order
OrderInCallOrder(parts, orders) ==
  /\ Len(ClauseOf(parts, "ORDER BY")) = 1
  /\ Len(ClauseOf(parts, "ORDER BY")[1].list) = Len(orders)
  /\ \A k \in 1..Len(orders) :
       ClauseOf(parts, "ORDER BY")[1].list[k] \in OrderEntries(orders[k])
  /\ ClauseOf(parts, "ORDER BY")[1].text
       = "ORDER BY " \o JoinStr(ClauseOf(parts, "ORDER BY")[1].list, ",")

OrderEntryCount(parts) ==
  IF ClauseOf(parts, "ORDER BY") = <<>> THEN 0
  ELSE Len(ClauseOf(parts, "ORDER BY")[1].list)

\* C25: every order operation of a chain contributes an ORDER BY entry to the
\* SELECT of the group it belongs to, in the first group and in every later
\* sub-query group alike (the orderBy of skip(5).map(f).orderBy(s) appears in the
\* outer SELECT).
C25_EveryOrderReachesItsSelect ==
  (last.kind = "engine.toArray" /\ ~last.outcome.compiled.threw) =>
    \A g \in 1..Len(splitOps(last.outcome.state.ops)) :
      OrderEntryCount(SelectsOf(last.outcome.compiled)[g])
        = Len(OfType(splitOps(last.outcome.state.ops)[g], "order"))

\* the place of a clause in SELECT [DISTINCT] <projection> FROM <source> [JOINs]
\* [WHERE] [ORDER BY] [OFFSET] [LIMIT]
Rank(kw) ==
  CASE kw \in {"SELECT", "SELECT DISTINCT"} -> 1
    [] kw = "PROJECTION" -> 2
    [] kw = "FROM" -> 3
    [] kw = "JOINS" -> 4
    [] kw = "WHERE" -> 5
    [] kw = "ORDER BY" -> 6
    [] kw = "OFFSET" -> 7
    [] kw = "LIMIT" -> 8

\* the JOIN clause of the relation courses under `alias`, for the root alias ___t0
CoursesJoin(alias) ==
  "LEFT JOIN " \o Quoted("courses") \o " AS " \o Quoted(alias) \o " ON "
    \o Quoted(uniqueAlias(0)) \o "." \o Quoted("id") \o "="
    \o Quoted(alias) \o "." \o Quoted("id")

\* C26: for every operation list of a group the emitted statement is the sequence
\* SELECT [DISTINCT], projection, FROM source, one JOIN clause per include
\* (separated only by whitespace), WHERE, ORDER BY, OFFSET, LIMIT in that fixed
\* order, whatever the order of the chained operations and for any number of
\* includes.
C26_FixedAssemblyOrder ==
  (last.kind = "engine.toArray" /\ ~last.outcome.compiled.threw) =>
    /\ \A g \in 1..Len(SelectsOf(last.outcome.compiled)) :
         /\ last.outcome.compiled.sql # ""
         /\ SelectsOf(last.outcome.compiled)[g][1].kw \in {"SELECT", "SELECT DISTINCT"}
         /\ \A i \in 2..Len(SelectsOf(last.outcome.compiled)[g]) :
              \/ Rank(SelectsOf(last.outcome.compiled)[g][i - 1].kw)
                   < Rank(SelectsOf(last.outcome.compiled)[g][i].kw)
              \/ /\ SelectsOf(last.outcome.compiled)[g][i].kw = "JOINS"
                 /\ SelectsOf(last.outcome.compiled)[g][i - 1].kw = "JOINS"
                 /\ SelectsOf(last.outcome.compiled)[g][i].text = ""
    /\ Len(ClauseOf(SelectsOf(last.outcome.compiled)[1], "JOINS")[1].list)
         = Len(OfType(splitOps(last.outcome.state.ops)[1], "include"))
    /\ ClauseOf(SelectsOf(last.outcome.compiled)[1], "JOINS")[1].text
         = JoinStr([k \in 1..Len(ClauseOf(SelectsOf(last.outcome.compiled)[1],
                                          "JOINS")[1].list) |->
                      CoursesJoin(ClauseOf(SelectsOf(last.outcome.compiled)[1],
                                           "JOINS")[1].list[k])], " ")

(***************************************************************************)
(* Properties of the projection a map installs (SpecEngine).               *)
(***************************************************************************)
\* the selects a map over the columns of the root entity produces: alias and target
MapSelects(fn) ==
  CASE fn = FnMapId -> <<<<"id", RootId>>>>
    [] fn = FnMapIdx -> <<<<"id", RootId>>, <<"idx", "(" \o RootId \o " * 8)">>>>
    [] fn = FnMapId8 -> <<<<"id", "(" \o RootId \o " * 8)">>>>
    [] OTHER -> <<>>

MapAliases(fn) == [i \in 1..Len(MapSelects(fn)) |-> MapSelects(fn)[i][1]]

\* what a path resolves to when exactly the aliases of the map fn are resolvable and
\* every other path is looked up in the scope bag
AfterMapTarget(fn, bag, path) ==
  IF \E i \in 1..Len(MapSelects(fn)) : MapSelects(fn)[i][1] = path
  THEN MapSelects(fn)[CHOOSE i \in 1..Len(MapSelects(fn)) : MapSelects(fn)[i][1] = path][2]
  ELSE IF LodashGet(bag, path) = Undefined THEN "[Unknown target]"
       ELSE TemplateString(LodashGet(bag, path))

\* the path a filter callback reads and what it compares it with
FilterReads(fn) ==
  CASE fn = FnIdGt1 -> <<"id", " > 1">>
    [] fn = FnIdLt3 -> <<"id", " < 3">>
    [] fn = FnIdxGt1 -> <<"idx", " > 1">>
    [] fn = FnNoSuch -> <<"nosuch", " > 1">>
    [] fn = FnRoleEqNull -> <<"role", " = null">>
    [] OTHER -> <<>>

\* the path an order selector reads
OrderReads(fn) ==
  CASE fn = FnSelId -> <<"id">>
    [] fn = FnSelIdx -> <<"idx">>
    [] fn = FieldSelector("username") -> <<"username">>
    [] OTHER -> <<>>

\* the group starts with a map over the root columns and goes on with filters,
\* orders, skips, takes and distincts whose reads are listed, or with one more map
StartsWithMap(group) ==
  /\ group[1].type = "map"
  /\ MapSelects(group[1].str) # <<>>
  /\ \/ Len(group) = 2 /\ group[2].type = "map" /\ group[2].str = FnMapPick
     \/ \A i \in 2..Len(group) :
          /\ group[i].type \in {"filter", "order", "skip", "take", "distinct"}
          /\ group[i].type = "filter" => FilterReads(group[i].str) # <<>>
          /\ group[i].type = "order" => OrderReads(group[i].str) # <<>>

\* the clauses of the first SELECT `parts`, compiled from `group` under `bag`, are
\* the ones a resolver that knows exactly the aliases of the map produces
ReadsOnlyMapAliases(parts, group, bag, columns) ==
  /\ \A k \in 1..Len(OfType(group, "filter")) :
       ClauseOf(parts, "WHERE")[1].list[k]
         = AfterMapTarget(group[1].str, bag, FilterReads(OfType(group, "filter")[k].str)[1])
             \o FilterReads(OfType(group, "filter")[k].str)[2]
  /\ \A k \in 1..Len(OfType(group, "order")) :
       ClauseOf(parts, "ORDER BY")[1].list[k]
         = AfterMapTarget(group[1].str, bag, OrderReads(OfType(group, "order")[k].str)[1])
             \o " " \o OfType(group, "order")[k].direction
  /\ IF Len(OfType(group, "map")) = 2
     THEN ClauseOf(parts, "PROJECTION")[1].text
            = AfterMapTarget(group[1].str, bag, "idx") \o " AS " \o Quoted("n") \o ","
                \o AfterMapTarget(group[1].str, bag, "fullName") \o " AS " \o Quoted("f")
     ELSE columns = MapAliases(group[1].str)

C27_WitnessScope ==
  /\ last.kind = "engine.toArray"
  /\ ~last.outcome.compiled.threw
  /\ last.outcome.state.scope = ScopeRole
  /\ Len(last.outcome.state.ops) = 2
  /\ ClauseOf(last.outcome.compiled.parts, "WHERE")[1].list = <<"7 = null">>

(***************************************************************************)
(* Properties of the schema registry (SpecSchema).                         *)
(***************************************************************************)
\* C28: schema descriptors are per constructor: registering a column or relation
\* on entity constructor A (by @Column / @HasMany) leaves getColumnsMetadata(B) and
\* getRelationsMetadata(B) unchanged for every other constructor B, including when
\* A is a subclass of B.
C28_DescriptorsPerConstructor ==
  [][(schema.open # "" /\ schema'.open = schema.open /\ schema' # schema) =>
       \A B \in schema.declared :
         /\ getColumnsMetadata(schema', B) = getColumnsMetadata(schema, B)
         /\ getRelationsMetadata(schema', B) = getRelationsMetadata(schema, B)]_vars

(***************************************************************************)
(* Properties of PostgresEngine.first (SpecFirst).                         *)
(***************************************************************************)
\* C29: PostgresEngine.first(state) does not change the operation list of the
\* builder that produced the state: after engine.first(b.getState()) the list
\* b.getState().ops is what it was before the call, and b.toArray() compiles the
\* same SQL as it would have before.
C29_EngineFirstLeavesBuilder ==
  [][last'.kind = "engine.first" =>
       /\ getState(builders'[last'.this]).ops = getState(builders[last'.this]).ops
       /\ EngineToArray(getState(builders'[last'.this])).compiled.sql
            = EngineToArray(getState(builders[last'.this])).compiled.sql]_vars

(***************************************************************************)
(* Properties of the empty chain (Spec).                                   *)
(***************************************************************************)
\* C30: toArray on a builder with an empty operation list (a fresh DbSet) compiles
\* without error to a single SELECT that projects every declared column of the
\* root entity as <alias>."<columnName>" AS "<fieldName>" from the entity's table,
\* with no WHERE, ORDER BY, OFFSET or LIMIT.
C30_EmptyChainSelectsAllColumns ==
  (last.kind = "toArray" /\ last.outcome.state.ops = <<>>) =>
    /\ ~last.outcome.compiled.threw
    /\ last.outcome.compiled.inner = <<>>
    /\ ClauseOf(last.outcome.compiled.parts, "PROJECTION")[1].text
         = JoinStr([i \in 1..Len(ColumnsMetadata("User")) |->
                      Quoted(uniqueAlias(0)) \o "." \o Quoted(ColumnsMetadata("User")[i].name)
                        \o " AS " \o Quoted(ColumnsMetadata("User")[i].fieldName)], ",")
    /\ ClauseOf(last.outcome.compiled.parts, "FROM")[1].text
         = "FROM " \o Quoted(TableName("User")) \o " AS " \o Quoted(uniqueAlias(0))
    /\ \A kw \in {"WHERE", "ORDER BY", "OFFSET", "LIMIT"} :
         ClauseOf(last.outcome.compiled.parts, kw) = <<>>

====
